---- MODULE Spec2Model ----
(***************************************************************************)
(* AI Bookmark Manager: the bookmark tree algorithms (utils/bookmarkUtils), *)
(* the application reducer and handlers (AppContext.tsx), the link health   *)
(* audit (services/linkCheckerService) and the duplicate manager            *)
(* (components/DuplicateManagerView), as state machines.                    *)
(*                                                                          *)
(* A tree is a sequence of nodes.  A bookmark is a record                   *)
(*   [type, id, title, url, addDate, searchText]                            *)
(* and a folder is a record                                                 *)
(*   [type, id, title, children, childStats].                               *)
(* An optional field that is absent is the empty sequence <<>>; one that is *)
(* present is a one-element or two-element sequence.                        *)
(***************************************************************************)
EXTENDS Integers, Sequences, FiniteSets, TLC

\* ------------------------------------------------------------------------
\* Bounds of the model
\* ------------------------------------------------------------------------

\* Largest number of nodes (folders and bookmarks) of a tree given to the
\* pure tree functions.
MaxNodes == 4

\* Largest number of nodes of an imported file, for the audit alone and for
\* the whole application.
MaxAuditNodes == 3

MaxAppNodes == 2

\* Batch sizes.  The code cuts the audit's survivors into batches of 25
\* (CHUNK_SIZE, linkCheckerService), the bookmarks to categorize into batches
\* of 20 run 5 at a time (CHUNK_SIZE and CONCURRENCY, geminiService) and the
\* Fix-It-All probes into chunks of 50; the model keeps the loops and scales
\* the sizes to its trees.
AuditChunkSize == 2

CatChunkSize == 1

CatConcurrency == 2

FixChunkSize == 2

\* Longest array the oracle answers with, and longest id list of a category.
MaxReplyLen == 2

MaxIdsPerCategory == 2

\* Longest array the oracle answers with where the whole application runs.
AppReplyLen == 1

\* Most oracle-backed handlers (audit, categorize, Fix It All) started: where
\* the whole application runs or one audit is followed, and where the
\* handlers follow each other on a small file.
OneRun == 1

MaxRuns == 2

\* Largest number of nodes of that small file.
MaxQuotaNodes == 2

\* Longest array of categories the oracle answers with where the handlers
\* follow each other: there its failures are what matters.
QuotaReplyLen == 0

\* Most nodes of a file given to the duplicate manager.
MaxDupNodes == 4

\* Urls probed at a time by the smart scan (BATCH_SIZE, 10 in the code).
ScanBatchSize == 1

\* Most nodes of a file when the tools are run one after another.
MaxRerunNodes == 1

\* Nodes of a file whose insights are shown.
MaxInsightNodes == 3

\* Nodes of a file that is searched.
MaxSearchNodes == 3

\* Nodes of a file on which every operation with the loading overlay is run.
MaxLoadingNodes == 1

\* Most bookmarks of a list given to analyzeBookmarkAges.
MaxAgeBookmarks == 2

\* Most bookmarks of an audit whose statistics are computed on their own.
MaxChecked == 40

\* ------------------------------------------------------------------------
\* Identifiers.  The parser builds 'bookmark-' / 'folder-' plus a random
\* suffix plus the time: a prefix and a number no other node has.
\* ------------------------------------------------------------------------
IdAt(kind, name, n, now) == [kind |-> kind, name |-> name, n |-> n, now |-> now]

\* The ids the parser gives.
Id(kind, name, n) == IdAt(kind, name, n, 0)

\* An id no node of a tree has.
ForeignId == Id("bookmark", "", 0)

\* Strings of the model and String.prototype.toLowerCase on them.
Urls == {"https://A.com", "https://b.org"}

\* The url the oracle gives for a bookmark that has moved.
MovedUrl == "https://b.org"

BookmarkTitle == "Docs"

\* The folder names the oracle answers with.
CategoryNames == {"News", "news"}

FolderTitles == <<"Bar", "Sub", "bar", "News">>

toLowerCase(s) ==
    CASE s = "https://A.com" -> "https://a.com"
      [] s = "Docs" -> "docs"
      [] s = "Bar" -> "bar"
      [] s = "Sub" -> "sub"
      [] s = "News" -> "news"
      [] s = "Miscellaneous" -> "miscellaneous"
      [] OTHER -> s

\* ADD_DATE values of the imported bookmarks: the parser keeps the text of the
\* attribute, epoch seconds in decimal digits.
AddDates == {"100", "200"}

\* The same with ADD_DATE="", which leaves addDate the empty string.
DatesOrNone == {""} \cup AddDates

\* The time of `new Date()` in analyzeBookmarkAges, in epoch seconds, and the
\* seconds of a day.
Now == 1800000000

Day == 24 * 60 * 60

\* Ages in days of the bookmarks given to analyzeBookmarkAges, their ADD_DATE
\* values, an ADD_DATE that is no number and one whose seconds are beyond
\* the range of Date.
AgeDays == {0, 31, 181, 362, 400, 725, 1810, 2000}

AgeStamps == {Now - d * Day : d \in AgeDays}

NotANumber == "abc"

BeyondDate == "99999999999999999"

AgeDates == {ToString(n) : n \in AgeStamps} \cup {"", NotANumber, BeyondDate}

\* isNaN(new Date(parseInt(s) * 1000).getTime()), and parseInt(s), for the
\* strings the model uses.
isNaN(s) == s \notin {"0", "100", "200"} \cup {ToString(n) : n \in AgeStamps}

parseInt(s) ==
    CASE s = "0"   -> 0
      [] s = "100" -> 100
      [] s = "200" -> 200
      [] OTHER     -> CHOOSE n \in AgeStamps : ToString(n) = s

\* parseInt(bookmark.addDate || '0'): the empty string is falsy.
addedAt(bookmark) ==
    parseInt(IF bookmark.addDate = "" THEN "0" ELSE bookmark.addDate)

\* ------------------------------------------------------------------------
\* utils/bookmarkUtils: the tree algorithms
\* ------------------------------------------------------------------------
RECURSIVE flattenBookmarks(_)
flattenBookmarks(nodes) ==
    IF nodes = <<>> THEN <<>>
    ELSE LET node == Head(nodes)
         IN  (IF node.type = "bookmark" THEN <<node>>
              ELSE flattenBookmarks(node.children))
             \o flattenBookmarks(Tail(nodes))

\* Every node id of a tree, folders included, in depth-first pre-order.
RECURSIVE nodeIds(_)
nodeIds(nodes) ==
    IF nodes = <<>> THEN <<>>
    ELSE LET node == Head(nodes)
         IN  <<node.id>>
             \o (IF node.type = "folder" THEN nodeIds(node.children) ELSE <<>>)
             \o nodeIds(Tail(nodes))

\* Every folder of a tree, in depth-first pre-order.
RECURSIVE folders(_)
folders(nodes) ==
    IF nodes = <<>> THEN <<>>
    ELSE LET node == Head(nodes)
         IN  (IF node.type = "folder"
              THEN <<node>> \o folders(node.children) ELSE <<>>)
             \o folders(Tail(nodes))

Range(s) == {s[i] : i \in 1..Len(s)}

\* A plausible slip: the type test is dropped, so a folder whose id is in the
\* set is skipped with everything below it.
RECURSIVE removeBookmarksByIds_noTypeTest(_, _)
removeBookmarksByIds_noTypeTest(nodes, idsToRemove) ==
    IF nodes = <<>> THEN <<>>
    ELSE LET node == Head(nodes)
             rest == removeBookmarksByIds_noTypeTest(Tail(nodes), idsToRemove)
         IN  IF node.id \in idsToRemove THEN rest
             ELSE IF node.type = "folder"
             THEN <<[node EXCEPT !.children =
                        removeBookmarksByIds_noTypeTest(node.children, idsToRemove)]>>
                  \o rest
             ELSE <<node>> \o rest

\* A plausible slip: a folder left without children is dropped with them.
RECURSIVE removeBookmarksByIds_emptiedDropped(_, _)
removeBookmarksByIds_emptiedDropped(nodes, idsToRemove) ==
    IF nodes = <<>> THEN <<>>
    ELSE LET node == Head(nodes)
             rest == removeBookmarksByIds_emptiedDropped(Tail(nodes), idsToRemove)
             children == removeBookmarksByIds_emptiedDropped(node.children, idsToRemove)
         IN  IF node.type = "bookmark" /\ node.id \in idsToRemove THEN rest
             ELSE IF node.type = "folder"
             THEN IF children = <<>> /\ node.children # <<>> THEN rest
                  ELSE <<[node EXCEPT !.children = children]>> \o rest
             ELSE <<node>> \o rest

RECURSIVE removeBookmarksByIds(_, _)
removeBookmarksByIds(nodes, idsToRemove) ==
    IF nodes = <<>> THEN <<>>
    ELSE LET node == Head(nodes)
             rest == removeBookmarksByIds(Tail(nodes), idsToRemove)
         IN  IF node.id \in idsToRemove /\ node.type = "bookmark" THEN rest
             ELSE IF node.type = "folder"
             THEN <<[node EXCEPT !.children =
                        removeBookmarksByIds(node.children, idsToRemove)]>>
                  \o rest
             ELSE <<node>> \o rest

\* A plausible slip: a folder is kept only if it directly holds a bookmark,
\* so a folder holding only non-empty sub-folders is dropped.
RECURSIVE removeEmptyFolders_directOnly(_)
removeEmptyFolders_directOnly(nodes) ==
    IF nodes = <<>> THEN <<>>
    ELSE LET node == Head(nodes)
             rest == removeEmptyFolders_directOnly(Tail(nodes))
         IN  IF node.type = "folder"
             THEN LET cleanedChildren == removeEmptyFolders_directOnly(node.children)
                  IN  IF \E i \in 1..Len(cleanedChildren) :
                            cleanedChildren[i].type = "bookmark"
                      THEN <<[node EXCEPT !.children = cleanedChildren]>> \o rest
                      ELSE rest
             ELSE <<node>> \o rest

RECURSIVE removeEmptyFolders(_)
removeEmptyFolders(nodes) ==
    IF nodes = <<>> THEN <<>>
    ELSE LET node == Head(nodes)
             rest == removeEmptyFolders(Tail(nodes))
         IN  IF node.type = "folder"
             THEN LET cleanedChildren == removeEmptyFolders(node.children)
                  IN  IF Len(cleanedChildren) > 0
                      THEN <<[node EXCEPT !.children = cleanedChildren]>> \o rest
                      ELSE rest
             ELSE <<node>> \o rest

\* findEmptyFolders: the EmptyFolder records (id, title, path) of the folders
\* whose own children sequence is empty; a non-empty folder is searched.
\* A path is the sequence of titles that the code joins with ' / '.
RECURSIVE findEmptyFoldersRecursive(_, _)
findEmptyFoldersRecursive(nodes, currentPath) ==
    IF nodes = <<>> THEN <<>>
    ELSE LET node == Head(nodes)
             rest == findEmptyFoldersRecursive(Tail(nodes), currentPath)
         IN  IF node.type = "folder"
             THEN LET newPath == Append(currentPath, node.title)
                  IN  IF Len(node.children) = 0
                      THEN <<[id |-> node.id, title |-> node.title, path |-> newPath]>>
                           \o rest
                      ELSE findEmptyFoldersRecursive(node.children, newPath) \o rest
             ELSE rest

findEmptyFolders(nodes) == findEmptyFoldersRecursive(nodes, <<>>)

\* removeFoldersByIds.  The code writes node.children of every retained
\* folder (line 134), so the call changes the objects of its input.  The
\* result has the returned tree (cleanedBookmarks), the count (removedCount)
\* and `input`: the value of the input array after the call.  A skipped
\* folder stays in the input array as it was; a retained folder is the same
\* object in the input array and in the returned one.
RECURSIVE removeFoldersByIds(_, _)
removeFoldersByIds(nodes, idsToRemove) ==
    IF nodes = <<>>
    THEN [cleanedBookmarks |-> <<>>, removedCount |-> 0, input |-> <<>>]
    ELSE LET node == Head(nodes)
             rest == removeFoldersByIds(Tail(nodes), idsToRemove)
         IN  IF node.type = "folder" /\ node.id \in idsToRemove
             THEN [cleanedBookmarks |-> rest.cleanedBookmarks,
                   removedCount     |-> 1 + rest.removedCount,
                   input            |-> <<node>> \o rest.input]
             ELSE IF node.type = "folder"
             THEN LET result  == removeFoldersByIds(node.children, idsToRemove)
                      written == [node EXCEPT !.children = result.cleanedBookmarks]
                  IN  [cleanedBookmarks |-> <<written>> \o rest.cleanedBookmarks,
                       removedCount     |-> result.removedCount + rest.removedCount,
                       input            |-> <<written>> \o rest.input]
             ELSE [cleanedBookmarks |-> <<node>> \o rest.cleanedBookmarks,
                   removedCount     |-> rest.removedCount,
                   input            |-> <<node>> \o rest.input]

RECURSIVE updateBookmarkUrl(_, _, _)
updateBookmarkUrl(nodes, bookmarkId, newUrl) ==
    IF nodes = <<>> THEN <<>>
    ELSE LET node == Head(nodes)
             rest == updateBookmarkUrl(Tail(nodes), bookmarkId, newUrl)
         IN  IF node.id = bookmarkId /\ node.type = "bookmark"
             THEN <<[node EXCEPT !.url = newUrl]>> \o rest
             ELSE IF node.type = "folder"
             THEN <<[node EXCEPT !.children =
                        updateBookmarkUrl(node.children, bookmarkId, newUrl)]>>
                  \o rest
             ELSE <<node>> \o rest

\* searchText is `${title.toLowerCase()} ${url.toLowerCase()}`: the pair.
RECURSIVE createSearchIndex(_)
createSearchIndex(nodes) ==
    IF nodes = <<>> THEN <<>>
    ELSE LET node == Head(nodes)
             rest == createSearchIndex(Tail(nodes))
         IN  IF node.type = "folder"
             THEN <<[node EXCEPT !.children = createSearchIndex(node.children)]>>
                  \o rest
             ELSE <<[node EXCEPT !.searchText =
                        <<toLowerCase(node.title), toLowerCase(node.url)>>]>>
                  \o rest

\* The direct-child counts the parser's addFolderStats stores in a folder.
childCounts(children) ==
    [bookmarkCount |-> Cardinality({i \in 1..Len(children) :
                                       children[i].type = "bookmark"}),
     folderCount   |-> Cardinality({i \in 1..Len(children) :
                                       children[i].type = "folder"})]

RECURSIVE addFolderStats(_)
addFolderStats(nodes) ==
    IF nodes = <<>> THEN <<>>
    ELSE LET node == Head(nodes)
             rest == addFolderStats(Tail(nodes))
         IN  IF node.type = "folder"
             THEN <<[node EXCEPT !.childStats = <<childCounts(node.children)>>,
                                 !.children   = addFolderStats(node.children)]>>
                  \o rest
             ELSE <<node>> \o rest

\* ------------------------------------------------------------------------
\* analyzeBookmarkAges.  Times are in seconds: the code's milliseconds are
\* these times 1000, `now` being taken at a whole second.
\* ------------------------------------------------------------------------
oneMonth == 30 * 24 * 60 * 60

sixMonths == 6 * oneMonth

oneYear == 12 * oneMonth

twoYears == 2 * oneYear

fiveYears == 5 * oneYear

\* The keys of ageGroups, in the order of Object.entries.
AgeLabels ==
    <<"Over 5 years old", "2-5 years old", "1-2 years old", "6-12 months old",
      "1-6 months old", "Less than 1 month old">>

\* The if-chain of lines 255-260.
ageGroupOf(age) ==
    IF age > fiveYears THEN "Over 5 years old"
    ELSE IF age > twoYears THEN "2-5 years old"
    ELSE IF age > oneYear THEN "1-2 years old"
    ELSE IF age > sixMonths THEN "6-12 months old"
    ELSE IF age > oneMonth THEN "1-6 months old"
    ELSE "Less than 1 month old"

\* A plausible slip: the filter of the empty groups is left out.
analyzeBookmarkAges_noFilter(bookmarks, now) ==
    LET timed == SelectSeq(bookmarks,
                           LAMBDA b : b.addDate # "" /\ ~isNaN(b.addDate))
        pushed(label) ==
            SelectSeq(timed, LAMBDA b : ageGroupOf(now - parseInt(b.addDate)) = label)
    IN  [g \in 1..Len(AgeLabels) |->
            [label |-> AgeLabels[g],
             bookmarks |-> [k \in 1..Len(pushed(AgeLabels[g])) |->
                               [id |-> pushed(AgeLabels[g])[k].id]]]]

\* analyzeBookmarkAges: a bookmark without addDate or with one that is no
\* number is skipped; the groups that got a bookmark are returned.
analyzeBookmarkAges(bookmarks, now) ==
    LET timed == SelectSeq(bookmarks,
                           LAMBDA b : b.addDate # "" /\ ~isNaN(b.addDate))
        pushed(label) ==
            SelectSeq(timed, LAMBDA b : ageGroupOf(now - parseInt(b.addDate)) = label)
        ageGroups ==
            [g \in 1..Len(AgeLabels) |->
                [label |-> AgeLabels[g],
                 bookmarks |-> [k \in 1..Len(pushed(AgeLabels[g])) |->
                                   [id |-> pushed(AgeLabels[g])[k].id]]]]
    IN  SelectSeq(ageGroups, LAMBDA group : Len(group.bookmarks) > 0)

\* ------------------------------------------------------------------------
\* The trees parseBookmarks returns (worker code of AppContext.tsx)
\* ------------------------------------------------------------------------
newBookmark(url, addDate) ==
    [type |-> "bookmark", id |-> Id("bookmark", "", 0), title |-> BookmarkTitle,
     url |-> url, addDate |-> addDate, searchText |-> <<>>]

newFolder(children) ==
    [type |-> "folder", id |-> Id("folder", "", 0), title |-> "",
     children |-> children, childStats |-> <<>>]

\* The forests of exactly n nodes with bookmark urls in U and dates in D, ids
\* and folder titles not yet given.
RECURSIVE Forests(_, _, _)
Forests(n, U, D) ==
    IF n = 0 THEN {<<>>}
    ELSE {<<newBookmark(u, d)>> \o r :
              u \in U, d \in D, r \in Forests(n - 1, U, D)}
         \cup UNION {{<<newFolder(c)>> \o r :
                         c \in Forests(k, U, D), r \in Forests(n - 1 - k, U, D)} :
                     k \in 0..(n - 1)}

\* Number of nodes of a tree.
RECURSIVE size(_)
size(nodes) ==
    IF nodes = <<>> THEN 0
    ELSE LET node == Head(nodes)
         IN  1 + (IF node.type = "folder" THEN size(node.children) ELSE 0)
               + size(Tail(nodes))

\* Each node gets its own number, in the order the parser meets the lines;
\* a folder's title is taken from FolderTitles by that number.
RECURSIVE number(_, _)
number(nodes, next) ==
    IF nodes = <<>> THEN <<>>
    ELSE LET node == Head(nodes)
             used == IF node.type = "folder" THEN 1 + size(node.children) ELSE 1
             rest == number(Tail(nodes), next + used)
         IN  IF node.type = "folder"
             THEN <<[node EXCEPT
                       !.id = Id("folder", "", next),
                       !.title = FolderTitles[((next - 1) % Len(FolderTitles)) + 1],
                       !.children = number(node.children, next + 1)]>> \o rest
             ELSE <<[node EXCEPT !.id = Id("bookmark", "", next)]>> \o rest

\* parseBookmarks numbers the nodes and adds the folder statistics; _doParse
\* adds the search index before PARSE_SUCCESS.
parseBookmarks(forest) == addFolderStats(number(forest, 1))

WorkerTrees(n, U, D) ==
    {parseBookmarks(f) : f \in UNION {Forests(k, U, D) : k \in 0..n}}

ParsedTrees(n, U, D) == {createSearchIndex(t) : t \in WorkerTrees(n, U, D)}

\* ------------------------------------------------------------------------
\* Helpers of the handlers of AppContext.tsx
\* ------------------------------------------------------------------------

\* findDuplicates: the groups of bookmarks that share a url, two or more in a
\* group, each in list order; groups in the order their url first occurs.
RECURSIVE firstUrls(_, _)
firstUrls(bookmarks, seen) ==
    IF bookmarks = <<>> THEN <<>>
    ELSE IF Head(bookmarks).url \in seen THEN firstUrls(Tail(bookmarks), seen)
    ELSE <<Head(bookmarks).url>>
         \o firstUrls(Tail(bookmarks), seen \cup {Head(bookmarks).url})

RECURSIVE groupsOf(_, _)
groupsOf(urls, bookmarks) ==
    IF urls = <<>> THEN <<>>
    ELSE LET bookmarksWithUrl == SelectSeq(bookmarks, LAMBDA b : b.url = Head(urls))
         IN  (IF Len(bookmarksWithUrl) > 1
              THEN <<[url |-> Head(urls), items |-> bookmarksWithUrl]>> ELSE <<>>)
             \o groupsOf(Tail(urls), bookmarks)

findDuplicates(bookmarks) == groupsOf(firstUrls(bookmarks, {}), bookmarks)

\* Array.prototype.sort with the comparator
\* parseInt(a.addDate || '0') - parseInt(b.addDate || '0'): a stable sort, so
\* b goes before the first element it compares below.
RECURSIVE insertByDate(_, _)
insertByDate(sorted, b) ==
    IF sorted = <<>> THEN <<b>>
    ELSE IF addedAt(b) - addedAt(Head(sorted)) < 0 THEN <<b>> \o sorted
    ELSE <<Head(sorted)>> \o insertByDate(Tail(sorted), b)

RECURSIVE sortByDate(_)
sortByDate(bookmarks) ==
    IF bookmarks = <<>> THEN <<>>
    ELSE insertByDate(sortByDate(SubSeq(bookmarks, 1, Len(bookmarks) - 1)),
                      bookmarks[Len(bookmarks)])

\* findPathRecursive: the titles of the folders above the first node with the
\* id, as <<path>>, or <<>> (null) when no node has it.
RECURSIVE findPathRecursive(_, _, _)
findPathRecursive(nodes, id, currentPath) ==
    IF nodes = <<>> THEN <<>>
    ELSE LET node == Head(nodes)
         IN  IF node.id = id THEN <<currentPath>>
             ELSE LET foundPath ==
                          IF node.type = "folder"
                          THEN findPathRecursive(node.children, id,
                                                 Append(currentPath, node.title))
                          ELSE <<>>
                  IN  IF foundPath # <<>> THEN foundPath
                      ELSE findPathRecursive(Tail(nodes), id, currentPath)

UnknownLocation == <<"Unknown Location">>

\* A path is kept as the sequence of titles that the code joins with ' / ';
\* the joined empty path is the empty string.
findBookmarkPath(nodes, id) ==
    LET path == findPathRecursive(nodes, id, <<>>)
    IN  IF path # <<>> THEN path[1] ELSE UnknownLocation

\* A plausible slip: the children are visited with the path of their folder's
\* parent.
RECURSIVE buildPathMap_parentPath(_, _)
buildPathMap_parentPath(nodes, currentPath) ==
    IF nodes = <<>> THEN <<>>
    ELSE LET node == Head(nodes)
         IN  (IF node.type = "folder"
              THEN buildPathMap_parentPath(node.children, currentPath)
              ELSE <<[id |-> node.id, path |-> currentPath]>>)
             \o buildPathMap_parentPath(Tail(nodes), currentPath)

\* buildPathMap: the entries (bookmark id, path) in the order they are set.
RECURSIVE buildPathMap(_, _)
buildPathMap(nodes, currentPath) ==
    IF nodes = <<>> THEN <<>>
    ELSE LET node == Head(nodes)
         IN  (IF node.type = "folder"
              THEN buildPathMap(node.children, Append(currentPath, node.title))
              ELSE <<[id |-> node.id, path |-> currentPath]>>)
             \o buildPathMap(Tail(nodes), currentPath)

\* Map.get: the entry set last for the key, <<>> (undefined) without one.
mapGet(map, id) ==
    LET hits == SelectSeq(map, LAMBDA e : e.id = id)
    IN  IF hits = <<>> THEN <<>> ELSE <<hits[Len(hits)].path>>

\* pathMap.get(id) || 'Unknown Location': undefined and '' are both falsy.
pathOrUnknown(map, id) ==
    LET got == mapGet(map, id)
    IN  IF got = <<>> \/ got[1] = <<>> THEN UnknownLocation ELSE got[1]

\* A plausible slip: slice(i, i + CHUNK_SIZE + 1), every slice one element
\* too long.
chunksOf_oneTooLong(list, chunkSize) ==
    [k \in 1..((Len(list) + chunkSize - 1) \div chunkSize) |->
        SubSeq(list, (k - 1) * chunkSize + 1,
               IF k * chunkSize + 1 < Len(list) THEN k * chunkSize + 1 ELSE Len(list))]

\* The slices of `size` elements the services cut a list into.
chunksOf(list, chunkSize) ==
    [k \in 1..((Len(list) + chunkSize - 1) \div chunkSize) |->
        SubSeq(list, (k - 1) * chunkSize + 1,
               IF k * chunkSize < Len(list) THEN k * chunkSize ELSE Len(list))]

\* ------------------------------------------------------------------------
\* The oracle (Gemini) as the services see it.  A failed attempt carries an
\* error; getFullErrorText gives its lower-cased text, kept here as the set
\* of the signature words the text contains.
\* ------------------------------------------------------------------------
ErrorTexts == {{}, {"quota"}, {"billing"}, {"429"}}

includes(fullErrorText, word) == word \in fullErrorText

Failure(text) == [kind |-> "error", text |-> text]

Reply(results) == [kind |-> "array", results |-> results]

\* A null element of a JSON array.
Null == [isNull |-> TRUE]

NoUrl == <<>>

\* ------------------------------------------------------------------------
\* linkCheckerService.runAudit
\* ------------------------------------------------------------------------
MAX_RETRIES == 3

\* The loop over the parsed results (lines 435-442): every entry that is not
\* 'OK' and names a bookmark of the chunk is pushed at once; reading .status
\* of a null entry throws a TypeError after the entries before it were pushed.
RECURSIVE pushIssues(_, _, _)
pushIssues(results, chunk, allIssues) ==
    IF results = <<>> THEN [allIssues |-> allIssues, threw |-> FALSE]
    ELSE LET result == Head(results)
         IN  IF result = Null THEN [allIssues |-> allIssues, threw |-> TRUE]
             ELSE LET found == SelectSeq(chunk, LAMBDA b : b.id = result.id)
                  IN  IF result.status # "OK" /\ found # <<>>
                      THEN pushIssues(Tail(results), chunk,
                               Append(allIssues,
                                      [bookmark |-> found[1],
                                       status   |-> result.status,
                                       newUrl   |-> result.newUrl]))
                      ELSE pushIssues(Tail(results), chunk, allIssues)

\* Math.round(((totalChecked - issues) / totalChecked) * 100); Math.round
\* rounds a half towards plus infinity.
\* The arithmetic of line 469 is that of IEEE 754 doubles.  A double other
\* than 0 is [neg, m, e]: m its Precision significant bits in three limbs
\* <<high, mid, low>> of Top, Limb and Limb bits, the first bit 1 and worth
\* 2^e; Zero is the double 0.  The limbs keep every product within the
\* integers of the checker.
Precision == 53

Limb == 18

Top == Precision - 2 * Limb

Zero == [neg |-> FALSE, m |-> <<0, 0, 0>>, e |-> 0]

\* Round to nearest, ties to even: the bits m followed by a guard bit and a
\* rest that is or is not zero.
roundToDouble(neg, m, e, guard, sticky) ==
    LET up   == guard /\ (sticky \/ m[3] % 2 = 1)
        low  == m[3] + (IF up THEN 1 ELSE 0)
        mid  == m[2] + low \div 2^Limb
        high == m[1] + mid \div 2^Limb
    IN  IF high = 2^Top
        THEN [neg |-> neg, m |-> <<2^(Top - 1), 0, 0>>, e |-> e + 1]
        ELSE [neg |-> neg, m |-> <<high, mid % 2^Limb, low % 2^Limb>>, e |-> e]

\* n and c scaled by powers of two until c <= n < 2c, for n, c > 0.
RECURSIVE normalized(_, _, _)
normalized(n, c, e) ==
    IF n < c THEN normalized(2 * n, c, e - 1)
    ELSE IF n >= 2 * c THEN normalized(n, 2 * c, e + 1)
    ELSE [n |-> n, c |-> c, e |-> e]

\* a / b of two integers as a double, for b > 0: long division, a limb at a
\* time.
divide(a, b) ==
    IF a = 0 THEN Zero
    ELSE LET q  == normalized(IF a < 0 THEN -a ELSE a, b, 0)
             d1 == q.n * 2^(Top - 1)
             d2 == (d1 % q.c) * 2^Limb
             d3 == (d2 % q.c) * 2^Limb
             r  == d3 % q.c
         IN  roundToDouble(a < 0, <<d1 \div q.c, d2 \div q.c, d3 \div q.c>>, q.e,
                           2 * r >= q.c, (2 * r) % q.c # 0)

\* x * f of a double and a positive integer: the product of the limbs,
\* shifted right by the s bits it has too many.
times(x, f) ==
    IF x = Zero THEN Zero
    ELSE LET t0 == x.m[3] * f
             t1 == x.m[2] * f + t0 \div 2^Limb
             t2 == x.m[1] * f + t1 \div 2^Limb
             p1 == t1 % 2^Limb
             p0 == t0 % 2^Limb
             s  == CHOOSE k \in 0..(30 - Top) : t2 \div 2^k \in 2^(Top - 1)..(2^Top - 1)
             dropped == p0 % 2^s
         IN  roundToDouble(x.neg,
                           <<t2 \div 2^s,
                             ((t2 % 2^s) * 2^Limb + p1) \div 2^s,
                             ((p1 % 2^s) * 2^Limb + p0) \div 2^s>>,
                           x.e + s,
                           s > 0 /\ dropped >= 2^(s - 1),
                           s > 0 /\ dropped % 2^(s - 1) # 0)

\* Math.round of a double below 2^Top in size: the nearest integer, a half
\* going up.
MathRound(x) ==
    IF x = Zero \/ x.e < -1 THEN 0
    ELSE LET bits  == 2 * x.m[1] + x.m[2] \div 2^(Limb - 1)
             whole == bits \div 2^(Top - x.e)
             half  == (bits \div 2^(Top - 1 - x.e)) % 2 = 1
             more  == \/ bits % 2^(Top - 1 - x.e) # 0
                      \/ x.m[2] % 2^(Limb - 1) # 0
                      \/ x.m[3] # 0
         IN  IF x.neg
             THEN -(whole + (IF half /\ more THEN 1 ELSE 0))
             ELSE whole + (IF half THEN 1 ELSE 0)

healthScore(totalChecked, totalIssues) ==
    IF totalChecked > 0
    THEN MathRound(times(divide(totalChecked - totalIssues, totalChecked), 100))
    ELSE 100

rawAuditReport(allIssues, total) ==
    [issues |-> allIssues,
     stats  |-> [totalChecked |-> total,
                 totalIssues  |-> Len(allIssues),
                 healthScore  |-> healthScore(total, Len(allIssues))]]

\* A plausible slip: the wait ends with the first probe that settles
\* (Promise.race or Promise.any in place of Promise.all).
allSettled_first(probes) ==
    probes = <<>> \/ \E i \in 1..Len(probes) : probes[i] # "pending"

\* await Promise.all(preCheckPromises): every probe has settled.
allSettled(probes) == \A i \in 1..Len(probes) : probes[i] # "pending"

\* The result loop of Stage 1 (lines 366-376) over the settled probes.
networkErrors(bookmarks, probes) ==
    LET idx == SelectSeq([i \in 1..Len(bookmarks) |-> i],
                         LAMBDA i : probes[i] = "rejected")
    IN  [k \in 1..Len(idx) |->
            [bookmark |-> bookmarks[idx[k]], status |-> "Network Error",
             newUrl |-> NoUrl]]

survivors(bookmarks, probes) ==
    LET idx == SelectSeq([i \in 1..Len(bookmarks) |-> i],
                         LAMBDA i : probes[i] = "fulfilled")
    IN  [k \in 1..Len(idx) |-> bookmarks[idx[k]]]

\* reportWithPaths of runBookmarkHealthAudit.
reportWithPaths(raw, pathMap) ==
    [stats  |-> raw.stats,
     issues |-> [k \in 1..Len(raw.issues) |->
                    [bookmark |-> raw.issues[k].bookmark,
                     status   |-> raw.issues[k].status,
                     newUrl   |-> raw.issues[k].newUrl,
                     path     |-> pathOrUnknown(pathMap, raw.issues[k].bookmark.id)]]]

\* ------------------------------------------------------------------------
\* geminiService.categorizeBookmarks
\* ------------------------------------------------------------------------

\* String.prototype.trim and the test `name[0] === name[0].toUpperCase()` on
\* the category names of the model.
trim(s) ==
    CASE s = " " -> ""
      [] s = " news" -> "news"
      [] OTHER -> s

startsUpperCase(s) ==
    CASE s = "news" -> FALSE
      [] s = "miscellaneous" -> FALSE
      [] OTHER -> TRUE

\* The items of a parsed array that pass the structure test of processBatch
\* (lines 155-160): a null item is dropped.
validItems(parsedJson) == SelectSeq(parsedJson, LAMBDA item : item # Null)

\* The merge of lines 232-260.  `merged` is the Map in insertion order, each
\* entry with its lower-case key.
RECURSIVE mergeCategories(_, _)
mergeCategories(allResults, merged) ==
    IF allResults = <<>> THEN merged
    ELSE LET category   == Head(allResults)
             folderName == trim(category.folderName)
             key        == toLowerCase(folderName)
             at         == {i \in 1..Len(merged) : merged[i].key = key}
         IN  IF category.folderName = "" \/ folderName = ""
             THEN mergeCategories(Tail(allResults), merged)
             ELSE IF at # {}
             THEN LET i == CHOOSE j \in at : TRUE
                      existing == merged[i]
                  IN  mergeCategories(Tail(allResults),
                        [merged EXCEPT ![i] =
                           [key |-> key,
                            folderName |->
                                IF startsUpperCase(folderName)
                                   /\ ~startsUpperCase(existing.folderName)
                                THEN folderName ELSE existing.folderName,
                            bookmarkIds |->
                                existing.bookmarkIds \o category.bookmarkIds]])
             ELSE mergeCategories(Tail(allResults),
                     Append(merged, [key |-> key, folderName |-> folderName,
                                     bookmarkIds |-> category.bookmarkIds]))

\* Array.from(mergedCategories.values())
mergedValues(allResults) ==
    LET merged == mergeCategories(allResults, <<>>)
    IN  [i \in 1..Len(merged) |->
            [folderName |-> merged[i].folderName,
             bookmarkIds |-> merged[i].bookmarkIds]]

\* The bookmarks a category's id list selects from a list, one for each
\* listed id that the list has (Array.prototype.find: the first with the id).
RECURSIVE findAll(_, _)
findAll(bookmarkIds, bookmarks) ==
    IF bookmarkIds = <<>> THEN <<>>
    ELSE LET found == SelectSeq(bookmarks, LAMBDA b : b.id = Head(bookmarkIds))
         IN  (IF found # <<>> THEN <<found[1]>> ELSE <<>>)
             \o findAll(Tail(bookmarkIds), bookmarks)

categoryFolder(id, title, children) ==
    [type |-> "folder", id |-> id, title |-> title, children |-> children,
     childStats |-> <<>>]

\* String.prototype.replace(/\s+/g, '-') on the category names of the model.
dashed(s) == IF s = "AI Categories" THEN "AI-Categories" ELSE s

\* The folders handleAutoCategorize makes (lines 430-437), empty ones left
\* out.  `now` stands for the clock and the random numbers of the run: the
\* k-th folder of a run gets the number k.
RECURSIVE aiFolders(_, _, _, _)
aiFolders(categorizedResults, allBookmarksNow, now, k) ==
    IF categorizedResults = <<>> THEN <<>>
    ELSE LET category == Head(categorizedResults)
             children == findAll(category.bookmarkIds, allBookmarksNow)
         IN  (IF Len(children) > 0
              THEN <<categoryFolder(IdAt("ai", dashed(category.folderName), k, now),
                                    category.folderName, children)>>
              ELSE <<>>)
             \o aiFolders(Tail(categorizedResults), allBookmarksNow, now, k + 1)

\* The ids of the bookmarks placed in the folders (categorizedIds).
placedIds(newFolders) ==
    UNION {{newFolders[i].children[j].id : j \in 1..Len(newFolders[i].children)} :
           i \in 1..Len(newFolders)}

\* String.prototype.localeCompare on the folder titles of a proposal: the
\* place of a title in the collation order.
collationRank(title) ==
    CASE toLowerCase(title) = "miscellaneous" -> 1
      [] toLowerCase(title) = "news" -> 2
      [] OTHER -> 3

RECURSIVE insertByTitle(_, _)
insertByTitle(sorted, folder) ==
    IF sorted = <<>> THEN <<folder>>
    ELSE IF collationRank(folder.title) < collationRank(Head(sorted).title)
    THEN <<folder>> \o sorted
    ELSE <<Head(sorted)>> \o insertByTitle(Tail(sorted), folder)

RECURSIVE sortByTitle(_)
sortByTitle(newTree) ==
    IF newTree = <<>> THEN <<>>
    ELSE insertByTitle(sortByTitle(SubSeq(newTree, 1, Len(newTree) - 1)),
                       newTree[Len(newTree)])

\* The folders generateFixItAllProposal makes of the categories (691-710).
RECURSIVE fixFolders(_, _, _)
fixFolders(categorizedResults, goodBookmarks, now) ==
    IF categorizedResults = <<>> THEN <<>>
    ELSE LET cat == Head(categorizedResults)
             children == findAll(cat.bookmarkIds, goodBookmarks)
         IN  (IF Len(children) > 0
              THEN <<categoryFolder(IdAt("fix", cat.folderName, 0, now),
                                    cat.folderName, children)>>
              ELSE <<>>)
             \o fixFolders(Tail(categorizedResults), goodBookmarks, now)

\* A plausible slip: the bookmarks the oracle left out get no folder.
proposedTree_noLeftovers(categorizedResults, goodBookmarks, now) ==
    sortByTitle(fixFolders(categorizedResults, goodBookmarks, now))

\* The proposed tree (lines 688-726).
proposedTree(categorizedResults, goodBookmarks, now) ==
    LET newTree == fixFolders(categorizedResults, goodBookmarks, now)
        processedIds == placedIds(newTree)
        leftovers == SelectSeq(goodBookmarks, LAMBDA bm : bm.id \notin processedIds)
    IN  sortByTitle(
            IF Len(leftovers) > 0
            THEN Append(newTree, categoryFolder(Id("fix-misc", "", 0),
                                                "Miscellaneous", leftovers))
            ELSE newTree)

\* A plausible slip: the group is not sorted, so all but the first in tree
\* order are marked.
RECURSIVE newerCopies_unsorted(_)
newerCopies_unsorted(duplicateGroups) ==
    IF duplicateGroups = <<>> THEN {}
    ELSE LET group == Head(duplicateGroups).items
         IN  {group[i].id : i \in 2..Len(group)}
             \cup newerCopies_unsorted(Tail(duplicateGroups))

\* Step 1 of generateFixItAllProposal (626-643): in every duplicate group all
\* but the oldest are marked for removal.
RECURSIVE newerCopies(_)
newerCopies(duplicateGroups) ==
    IF duplicateGroups = <<>> THEN {}
    ELSE LET sorted == sortByDate(Head(duplicateGroups).items)
         IN  {sorted[i].id : i \in 2..Len(sorted)}
             \cup newerCopies(Tail(duplicateGroups))

\* ------------------------------------------------------------------------
\* AppContext.tsx: the application state and its reducer
\* ------------------------------------------------------------------------

\* A nullable field is <<>> (null) or a one-element sequence.
initialState ==
    [bookmarks         |-> <<>>,
     proposedBookmarks |-> <<>>,
     stats             |-> <<>>,
     activeFolderId    |-> <<>>,
     loadingState      |-> [isLoading |-> FALSE],
     appMode           |-> "welcome",
     duplicates        |-> <<>>,
     analysisResults   |-> <<>>,
     filteredState     |-> <<>>,
     emptyFolders      |-> <<>>,
     healthAuditReport |-> <<>>,
     selectedIssues    |-> {},
     isAIQuotaExceeded |-> FALSE,
     confirmation      |-> <<>>,
     searchQuery       |-> ""]

RootId == Id("root", "", 0)

\* Number of folders of a tree (countFolders of APPLY_FIX_IT_ALL).
countFolders(nodes) == Len(folders(nodes))

\* SET_LOADING: the payload is a Partial<LoadingState>; isLoading is <<>>
\* when the payload does not give it.
reduceSetLoading(s, payload) ==
    [s EXCEPT !.loadingState.isLoading =
                  IF payload.isLoading = <<>> THEN @ ELSE payload.isLoading[1],
              !.confirmation = <<>>]

reduceParseSuccess(s, payload) ==
    LET bookmarks == payload.bookmarks
        firstFolderId ==
            IF Len(bookmarks) > 0 /\ bookmarks[1].type = "folder"
            THEN bookmarks[1].id ELSE RootId
    IN  [initialState EXCEPT !.bookmarks = <<bookmarks>>,
                             !.stats = <<payload.stats>>,
                             !.appMode = "normal",
                             !.activeFolderId = <<firstFolderId>>]

reduceSetAppMode(s, payload) ==
    [s EXCEPT !.appMode = payload,
              !.selectedIssues = IF payload # "healthAudit" THEN {} ELSE @,
              !.searchQuery = IF payload \in {"normal", "welcome"} THEN "" ELSE @]

\* bookmarkCount of the statistics less the size of the id set.
lessBookmarks(s, idsToRemove) ==
    IF s.stats = <<>> THEN <<>>
    ELSE <<[s.stats[1] EXCEPT !.bookmarkCount = @ - Cardinality(idsToRemove)]>>

reduceResolveAllDuplicates(s, idsToRemove) ==
    IF s.bookmarks = <<>> THEN s
    ELSE IF idsToRemove = {}
    THEN [s EXCEPT !.appMode = "normal", !.duplicates = <<>>, !.confirmation = <<>>]
    ELSE [s EXCEPT
            !.bookmarks = <<removeEmptyFolders(
                              removeBookmarksByIds(s.bookmarks[1], idsToRemove))>>,
            !.stats = lessBookmarks(s, idsToRemove),
            !.appMode = "normal", !.duplicates = <<>>, !.confirmation = <<>>]

\* new URL(url).hostname.replace('www.', ''): the host in lower case; no url
\* of the model has a 'www.' to drop.
hostname(url) ==
    CASE url = "https://A.com" -> "a.com"
      [] url = "https://b.org" -> "b.org"

\* FILTER_BY_INSIGHT (lines 237-255).
reduceFilterByInsight(s, payload) ==
    IF s.bookmarks = <<>> \/ s.analysisResults = <<>> THEN s
    ELSE LET allBookmarks == flattenBookmarks(s.bookmarks[1])
             ageAnalysis == s.analysisResults[1].results.ageAnalysis
             ageGroup == SelectSeq(ageAnalysis, LAMBDA g : g.label = payload.key)
             idsOfGroup ==
                 IF ageGroup = <<>> THEN {}
                 ELSE {ageGroup[1].bookmarks[i].id : i \in 1..Len(ageGroup[1].bookmarks)}
             filteredBookmarks ==
                 IF payload.type = "domain"
                 THEN SelectSeq(allBookmarks, LAMBDA b : hostname(b.url) = payload.key)
                 ELSE IF payload.type = "age"
                 THEN SelectSeq(allBookmarks, LAMBDA b : b.id \in idsOfGroup)
                 ELSE <<>>
         IN  [s EXCEPT !.appMode = "filtered",
                       !.filteredState = <<[title |-> <<payload.type, payload.key>>,
                                            bookmarks |-> filteredBookmarks]>>]

\* previousMode of DELETE_FILTERED_BOOKMARKS (line 263).
previousMode(s) == IF s.searchQuery # "" THEN "normal" ELSE "insights"

\* DELETE_FILTERED_BOOKMARKS (lines 256-265).
reduceDeleteFilteredBookmarks(s) ==
    IF s.bookmarks = <<>> \/ s.filteredState = <<>> THEN s
    ELSE LET filtered == s.filteredState[1].bookmarks
             idsToRemove == {filtered[i].id : i \in 1..Len(filtered)}
         IN  IF idsToRemove = {} THEN [s EXCEPT !.confirmation = <<>>]
             ELSE [s EXCEPT
                     !.bookmarks = <<removeEmptyFolders(
                                       removeBookmarksByIds(s.bookmarks[1], idsToRemove))>>,
                     !.stats = IF s.stats = <<>> THEN <<>>
                               ELSE <<[s.stats[1] EXCEPT
                                          !.bookmarkCount = @ - Cardinality(idsToRemove)]>>,
                     !.appMode = previousMode(s),
                     !.filteredState = <<>>,
                     !.confirmation = <<>>]

reduceDeleteEmptyFolders(s) ==
    IF s.bookmarks = <<>> \/ Len(s.emptyFolders) = 0
    THEN [s EXCEPT !.confirmation = <<>>]
    ELSE LET idsToRemove == {s.emptyFolders[i].id : i \in 1..Len(s.emptyFolders)}
             r == removeFoldersByIds(s.bookmarks[1], idsToRemove)
         IN  [s EXCEPT
                !.bookmarks = <<r.cleanedBookmarks>>,
                !.stats = IF s.stats = <<>> THEN <<>>
                          ELSE <<[s.stats[1] EXCEPT !.folderCount = @ - r.removedCount]>>,
                !.appMode = "normal", !.emptyFolders = <<>>, !.confirmation = <<>>]

reduceSetHealthAuditReport(s, payload) ==
    [s EXCEPT !.appMode = "healthAudit",
              !.healthAuditReport = <<payload>>,
              !.selectedIssues = {}]

reduceDeleteSelectedIssues(s) ==
    IF s.bookmarks = <<>> \/ s.selectedIssues = {}
    THEN [s EXCEPT !.confirmation = <<>>]
    ELSE [s EXCEPT
            !.bookmarks = <<removeEmptyFolders(
                              removeBookmarksByIds(s.bookmarks[1], s.selectedIssues))>>,
            !.stats = lessBookmarks(s, s.selectedIssues),
            !.appMode = "normal", !.healthAuditReport = <<>>,
            !.selectedIssues = {}, !.confirmation = <<>>]

\* issues.filter(issue => issue.bookmark.id !== bookmarkId)
\* A plausible slip: the tree with the new url is committed as
\* updateBookmarkUrl returns it, without createSearchIndex.
reduceUpdateBookmarkUrl_notIndexed(s, payload) ==
    IF s.bookmarks = <<>> THEN s
    ELSE LET newBookmarks ==
                 updateBookmarkUrl(s.bookmarks[1], payload.bookmarkId, payload.newUrl)
             newReport ==
                 IF s.healthAuditReport = <<>> THEN <<>>
                 ELSE <<[s.healthAuditReport[1] EXCEPT !.issues =
                           SelectSeq(@, LAMBDA issue :
                                           issue.bookmark.id # payload.bookmarkId)]>>
         IN  [s EXCEPT !.bookmarks = <<newBookmarks>>,
                       !.healthAuditReport = newReport,
                       !.confirmation = <<>>]

reduceUpdateBookmarkUrl(s, payload) ==
    IF s.bookmarks = <<>> THEN s
    ELSE LET newBookmarks ==
                 updateBookmarkUrl(s.bookmarks[1], payload.bookmarkId, payload.newUrl)
             newReport ==
                 IF s.healthAuditReport = <<>> THEN <<>>
                 ELSE <<[s.healthAuditReport[1] EXCEPT !.issues =
                           SelectSeq(@, LAMBDA issue :
                                           issue.bookmark.id # payload.bookmarkId)]>>
         IN  [s EXCEPT !.bookmarks = <<createSearchIndex(newBookmarks)>>,
                       !.healthAuditReport = newReport,
                       !.confirmation = <<>>]

reduceToggleIssueSelection(s, payload) ==
    [s EXCEPT !.selectedIssues =
                  IF payload.issueId \in @ THEN @ \ {payload.issueId}
                  ELSE @ \cup {payload.issueId}]

reduceApplyFixItAll(s) ==
    IF s.proposedBookmarks = <<>> THEN s
    ELSE LET proposed == s.proposedBookmarks[1]
             firstId == IF Len(proposed) > 0 THEN proposed[1].id ELSE RootId
         IN  [s EXCEPT
                !.bookmarks = <<createSearchIndex(proposed)>>,
                !.stats = <<[bookmarkCount |-> Len(flattenBookmarks(proposed)),
                             folderCount   |-> countFolders(proposed)]>>,
                !.activeFolderId = <<firstId>>,
                !.appMode = "normal",
                !.proposedBookmarks = <<>>,
                !.confirmation = <<>>,
                !.loadingState = [isLoading |-> FALSE]]

\* A plausible slip: a failed import takes the provider back to its first
\* state.
reduceParseFailure_reset(s) == initialState

reduceParseFailure(s) == [s EXCEPT !.loadingState = [isLoading |-> FALSE]]

appReducer(s, action) ==
    CASE action.type = "SET_LOADING" -> reduceSetLoading(s, action.payload)
      [] action.type = "PARSE_SUCCESS" -> reduceParseSuccess(s, action.payload)
      [] action.type = "PARSE_FAILURE" -> reduceParseFailure(s)
      [] action.type = "SET_BOOKMARKS" -> [s EXCEPT !.bookmarks = <<action.payload>>]
      [] action.type = "SET_PROPOSED_BOOKMARKS" ->
            [s EXCEPT !.proposedBookmarks = <<action.payload>>, !.appMode = "fixItAll"]
      [] action.type = "SET_STATS" -> [s EXCEPT !.stats = <<action.payload>>]
      [] action.type = "UPDATE_BOOKMARK_URL" ->
            reduceUpdateBookmarkUrl(s, action.payload)
      [] action.type = "SET_ACTIVE_FOLDER" ->
            [s EXCEPT !.activeFolderId = <<action.payload>>]
      [] action.type = "SET_APP_MODE" -> reduceSetAppMode(s, action.payload)
      [] action.type = "SET_DUPLICATES" ->
            [s EXCEPT !.duplicates = action.payload, !.appMode = "duplicates"]
      [] action.type = "RESOLVE_ALL_DUPLICATES" ->
            reduceResolveAllDuplicates(s, action.payload)
      [] action.type = "SET_ANALYSIS_RESULTS" ->
            [s EXCEPT !.analysisResults = <<action.payload>>, !.appMode = "insights"]
      [] action.type = "SET_FILTERED_STATE" ->
            [s EXCEPT !.filteredState = <<action.payload>>, !.appMode = "filtered"]
      [] action.type = "FILTER_BY_INSIGHT" -> reduceFilterByInsight(s, action.payload)
      [] action.type = "DELETE_FILTERED_BOOKMARKS" -> reduceDeleteFilteredBookmarks(s)
      [] action.type = "SET_SEARCH_QUERY" -> [s EXCEPT !.searchQuery = action.payload]
      [] action.type = "SET_EMPTY_FOLDERS" ->
            [s EXCEPT !.appMode = "emptyFolders", !.emptyFolders = action.payload]
      [] action.type = "DELETE_EMPTY_FOLDERS" -> reduceDeleteEmptyFolders(s)
      [] action.type = "SET_HEALTH_AUDIT_REPORT" ->
            reduceSetHealthAuditReport(s, action.payload)
      [] action.type = "DELETE_SELECTED_ISSUES" -> reduceDeleteSelectedIssues(s)
      [] action.type = "TOGGLE_ISSUE_SELECTION" ->
            reduceToggleIssueSelection(s, action.payload)
      [] action.type = "SET_AI_QUOTA_EXCEEDED" ->
            [s EXCEPT !.isAIQuotaExceeded = action.payload]
      [] action.type = "SHOW_CONFIRMATION" ->
            [s EXCEPT !.confirmation = <<action.payload>>]
      [] action.type = "HIDE_CONFIRMATION" -> [s EXCEPT !.confirmation = <<>>]
      [] action.type = "APPLY_FIX_IT_ALL" -> reduceApplyFixItAll(s)
      [] OTHER -> s

Action(type, payload) == [type |-> type, payload |-> payload]

SetLoading(isLoading) == Action("SET_LOADING", [isLoading |-> <<isLoading>>])

\* SET_LOADING with a message only.
SetLoadingMessage == Action("SET_LOADING", [isLoading |-> <<>>])

\* dispatch of a sequence of actions, in order.
RECURSIVE dispatchAll(_, _)
dispatchAll(s, actions) ==
    IF actions = <<>> THEN s
    ELSE dispatchAll(appReducer(s, Head(actions)), Tail(actions))


\* ------------------------------------------------------------------------
\* State
\* ------------------------------------------------------------------------
VARIABLES
    tree,          \* the tree object given to a tree function (callers hold it)
    ids,           \* the id set given to it
    op,            \* the function called, "none" before the call
    arg,           \* the value of tree when the call was made
    out,           \* the tree returned
    removedCount,  \* the count returned (removeFoldersByIds)
    state,         \* the AppState of the reducer
    pc,            \* what the provider waits for: "idle" or a pending await
    worker,        \* <<content>> while the parse worker holds a file
    audit,         \* the locals of the running (or last) runAudit
    cat,           \* the locals of the running (or last) categorizeBookmarks
    orphans,       \* batches of an aborted categorizeBookmarks still running
    event,         \* the last step taken (history)
    runs,          \* oracle-backed handlers started so far
    view           \* the state of the mounted DuplicateManagerView and the
                   \* locals of its running (or last) performSmartScan

treeVars == <<tree, ids, op, arg, out, removedCount>>

appVars == <<state, pc, worker, audit, cat, orphans, event, runs, view>>

vars == <<tree, ids, op, arg, out, removedCount,
          state, pc, worker, audit, cat, orphans, event, runs, view>>

\* A step: its kind, the handler it belongs to and, for the step that ends a
\* handler, how it ended, the alert shown and the locals the handler had.
EndEvent(type, handler, end, alert, locals) ==
    [type |-> type, handler |-> handler, end |-> end, alert |-> alert,
     locals |-> locals]

Event(type, handler, end, alert) == EndEvent(type, handler, end, alert, <<>>)

noAudit ==
    [bookmarks |-> <<>>, pathMap |-> <<>>, probes |-> <<>>, allIssues |-> <<>>,
     bookmarksToAiCheck |-> <<>>, index |-> 0, retries |-> 0,
     attempts |-> <<>>, submitted |-> {}, exhausted |-> {}, succeeded |-> {},
     quotaFailed |-> FALSE, fullErrorText |-> <<>>, before |-> initialState,
     progress |-> <<>>]

noCat ==
    [handler |-> "", run |-> 0, bookmarks |-> <<>>, i |-> 0, tasks |-> <<>>,
     allResults |-> <<>>, allBookmarks |-> <<>>, idsToRemove |-> {},
     uniqueBookmarks |-> <<>>, j |-> 0, probes |-> <<>>, before |-> initialState]

\* useState of DuplicateManagerView (lines 21-23) and, of performSmartScan,
\* newSelections, newHealth, the batch index, the urls whose probe is pending
\* and, as history, the selection the scan began with and the sorted arrays
\* it made.  A health map is the set of its entries.
noView ==
    [selectedIds |-> {}, linkHealth |-> {}, isScanning |-> FALSE,
     newSelections |-> {}, newHealth |-> {}, i |-> 0, pending |-> {},
     before |-> {}, sorted |-> <<>>]

\* App.tsx renders the DuplicateManagerView while appMode is 'duplicates'; its
\* state lasts as long as it is mounted, and a scan still running when it is
\* unmounted sets nothing any more.
viewKept == view' = IF state'.appMode = "duplicates" THEN view ELSE noView

AppInit ==
    /\ view = noView
    /\ state = initialState
    /\ pc = "idle"
    /\ worker = <<>>
    /\ audit = noAudit
    /\ cat = noCat
    /\ orphans = <<>>
    /\ event = Event("none", "", "", "")
    /\ runs = 0

\* The toolbar, the views and the file uploader take input only while no
\* loading overlay and no confirmation modal covers them.
uiFree ==
    /\ pc = "idle"
    /\ ~state.loadingState.isLoading
    /\ state.confirmation = <<>>

\* ------------------------------------------------------------------------
\* The tree functions applied to every tree and id set within the bounds
\* ------------------------------------------------------------------------
TreeInit ==
    /\ tree \in ParsedTrees(MaxNodes, Urls, AddDates)
    /\ ids \in SUBSET Range(nodeIds(tree))
    /\ op = "none"
    /\ arg = tree
    /\ out = <<>>
    /\ removedCount = 0
    /\ AppInit

CallRemoveBookmarksByIds ==
    /\ op = "none"
    /\ op' = "removeBookmarksByIds"
    /\ out' = removeBookmarksByIds(tree, ids)
    /\ UNCHANGED <<tree, ids, arg, removedCount>>
    /\ UNCHANGED appVars

CallRemoveEmptyFolders ==
    /\ op = "none"
    /\ ids = {}
    /\ op' = "removeEmptyFolders"
    /\ out' = removeEmptyFolders(tree)
    /\ UNCHANGED <<tree, ids, arg, removedCount>>
    /\ UNCHANGED appVars

CallRemoveFoldersByIds ==
    /\ op = "none"
    /\ LET r == removeFoldersByIds(tree, ids)
       IN  /\ out' = r.cleanedBookmarks
           /\ removedCount' = r.removedCount
           /\ tree' = r.input
    /\ op' = "removeFoldersByIds"
    /\ UNCHANGED <<ids, arg>>
    /\ UNCHANGED appVars

\* findEmptyFolders reads the tree and returns the list of EmptyFolder records.
CallFindEmptyFolders ==
    /\ op = "none"
    /\ ids = {}
    /\ op' = "findEmptyFolders"
    /\ out' = findEmptyFolders(tree)
    /\ UNCHANGED <<tree, ids, arg, removedCount>>
    /\ UNCHANGED appVars

\* buildPathMap reads the tree and returns the map.
CallBuildPathMap ==
    /\ op = "none"
    /\ ids = {}
    /\ op' = "buildPathMap"
    /\ out' = buildPathMap(tree, <<>>)
    /\ UNCHANGED <<tree, ids, arg, removedCount>>
    /\ UNCHANGED appVars

TreeNext ==
    \/ CallBuildPathMap
    \/ CallRemoveBookmarksByIds
    \/ CallRemoveEmptyFolders
    \/ CallRemoveFoldersByIds
    \/ CallFindEmptyFolders

SpecTree == TreeInit /\ [][TreeNext]_vars

\* analyzeBookmarkAges applied to every list of bookmarks within the bounds.
BookmarkLists(n, U, D) ==
    {f \in Forests(n, U, D) : \A k \in 1..Len(f) : f[k].type = "bookmark"}

AgesInit ==
    /\ tree \in {createSearchIndex(parseBookmarks(f)) :
                    f \in UNION {BookmarkLists(n, {"https://A.com"}, AgeDates) :
                                    n \in 0..MaxAgeBookmarks}}
    /\ ids = {}
    /\ op = "none"
    /\ arg = tree
    /\ out = <<>>
    /\ removedCount = 0
    /\ AppInit

CallAnalyzeBookmarkAges ==
    /\ op = "none"
    /\ op' = "analyzeBookmarkAges"
    /\ out' = analyzeBookmarkAges(tree, Now)
    /\ UNCHANGED <<tree, ids, arg, removedCount>>
    /\ UNCHANGED appVars

SpecAges == AgesInit /\ [][CallAnalyzeBookmarkAges]_vars

\* The statistics of runAudit for every number of bookmarks and of issues
\* within the bounds.
StatsInit ==
    /\ tree = <<>>
    /\ ids = {}
    /\ op = "none"
    /\ arg \in {[total |-> total, allIssues |-> [k \in 1..n |-> k]] :
                    total \in 0..MaxChecked, n \in 0..MaxChecked}
    /\ Len(arg.allIssues) <= arg.total
    /\ out = <<>>
    /\ removedCount = 0
    /\ AppInit

CallRunAuditStats ==
    /\ op = "none"
    /\ op' = "runAudit"
    /\ out' = <<rawAuditReport(arg.allIssues, arg.total)>>
    /\ UNCHANGED <<tree, ids, arg, removedCount>>
    /\ UNCHANGED appVars

SpecStats == StatsInit /\ [][CallRunAuditStats]_vars

\* ------------------------------------------------------------------------
\* Import: parseFile, _doParse and the worker (AppContext.tsx 368-411)
\* ------------------------------------------------------------------------

\* What the worker makes of a file: a parsed tree with its statistics, or an
\* error.
FileOf(bookmarks) ==
    [ok |-> TRUE, bookmarks |-> bookmarks,
     stats |-> [bookmarkCount |-> Len(flattenBookmarks(bookmarks)),
                folderCount   |-> countFolders(bookmarks)]]

BadFile == [ok |-> FALSE]

\* The worker holds the content posted to it; with it is kept, for the
\* claims, the state _doParse was called in.
doParse(s, content) ==
    /\ state' = appReducer(s, SetLoading(TRUE))
    /\ worker' = <<content, s>>
    /\ pc' = "parsing"

\* parseFile: the user gives a file to the uploader.
ParseFile(content) ==
    /\ uiFree
    /\ state.appMode \in {"welcome", "normal"}
    /\ IF state.bookmarks # <<>> /\ Len(state.bookmarks[1]) > 0
       THEN /\ state' = appReducer(state,
                  Action("SHOW_CONFIRMATION",
                         [onConfirm |-> Action("_doParse", content)]))
            /\ UNCHANGED <<pc, worker>>
       ELSE doParse(state, content)
    /\ event' = Event("user", "parseFile", "", "")
    /\ UNCHANGED <<audit, cat, orphans, runs>>
    /\ UNCHANGED treeVars
    /\ viewKept

\* worker.onmessage / worker.onerror
WorkerMessage ==
    /\ pc = "parsing"
    /\ LET content == worker[1]
       IN  IF ~content.ok
           THEN /\ state' = appReducer(state, Action("PARSE_FAILURE", "error"))
                /\ pc' = "idle"
                /\ worker' = <<>>
                /\ event' = EndEvent("end", "parseFile", "error", "parse error",
                                     <<worker[2]>>)
           ELSE IF Len(content.bookmarks) = 0
           THEN /\ state' = appReducer(state, SetLoading(FALSE))
                /\ pc' = "idle"
                /\ worker' = <<>>
                /\ event' = EndEvent("end", "parseFile", "empty",
                                     "no bookmarks found", <<worker[2]>>)
           ELSE /\ state' = appReducer(state, SetLoadingMessage)
                /\ pc' = "parsed"
                /\ worker' = worker
                /\ event' = Event("worker", "parseFile", "", "")
    /\ UNCHANGED <<audit, cat, orphans, runs>>
    /\ UNCHANGED treeVars
    /\ viewKept

\* The timer of line 382.
ParseSuccess ==
    /\ pc = "parsed"
    /\ state' = appReducer(state,
          Action("PARSE_SUCCESS",
                 [bookmarks |-> createSearchIndex(worker[1].bookmarks),
                  stats |-> worker[1].stats]))
    /\ pc' = "idle"
    /\ worker' = <<>>
    /\ event' = Event("end", "parseFile", "success", "")
    /\ UNCHANGED <<audit, cat, orphans, runs>>
    /\ UNCHANGED treeVars
    /\ viewKept

\* ------------------------------------------------------------------------
\* The local utilities and the views
\* ------------------------------------------------------------------------
toolbarShown == uiFree /\ state.appMode = "normal" /\ state.bookmarks # <<>>

\* The DuplicateSets of findAndSetDuplicates (lines 475-479).
duplicateSets(bookmarks) ==
    LET duplicateGroups == findDuplicates(flattenBookmarks(bookmarks))
    IN  [g \in 1..Len(duplicateGroups) |->
            [url   |-> duplicateGroups[g].url,
             items |-> LET bms == sortByDate(duplicateGroups[g].items)
                       IN  [k \in 1..Len(bms) |->
                               [bookmark |-> bms[k],
                                path |-> findBookmarkPath(bookmarks, bms[k].id)]]]]

\* findAndSetDuplicates with its timer callback: the overlay is up between
\* the two, and the callback reads the tree the handler was made with.
FindAndSetDuplicates ==
    /\ toolbarShown
    /\ LET sets == duplicateSets(state.bookmarks[1])
       IN  IF Len(sets) = 0
           THEN /\ state' = dispatchAll(state, <<SetLoading(TRUE), SetLoading(FALSE)>>)
                /\ event' = Event("end", "findAndSetDuplicates", "none",
                                  "No duplicate bookmarks found!")
           ELSE /\ state' = dispatchAll(state,
                      <<SetLoading(TRUE), Action("SET_DUPLICATES", sets),
                        SetLoading(FALSE)>>)
                /\ event' = Event("end", "findAndSetDuplicates", "found", "")
    /\ UNCHANGED <<pc, worker, audit, cat, orphans, runs>>
    /\ UNCHANGED treeVars
    /\ viewKept

\* handleResolveAllKeepOldest of the toolbar.
newerOfSets(sets) ==
    UNION {{sets[g].items[k].bookmark.id : k \in 2..Len(sets[g].items)} :
           g \in 1..Len(sets)}

allOfSets(sets) ==
    UNION {{sets[g].items[k].bookmark.id : k \in 1..Len(sets[g].items)} :
           g \in 1..Len(sets)}

ResolveAllKeepOldest ==
    /\ uiFree
    /\ state.appMode = "duplicates"
    /\ state' = appReducer(state,
          Action("SHOW_CONFIRMATION",
                 [onConfirm |-> Action("RESOLVE_ALL_DUPLICATES",
                                       newerOfSets(state.duplicates))]))
    /\ event' = Event("user", "handleResolveAllKeepOldest", "", "")
    /\ UNCHANGED <<pc, worker, audit, cat, orphans, runs>>
    /\ UNCHANGED treeVars
    /\ viewKept

\* handleResolveSelected of the duplicate manager, for any selection.
ResolveSelected(selectedIds) ==
    /\ uiFree
    /\ state.appMode = "duplicates"
    /\ selectedIds # {}
    /\ state' = appReducer(state,
          Action("SHOW_CONFIRMATION",
                 [onConfirm |-> Action("RESOLVE_ALL_DUPLICATES", selectedIds)]))
    /\ event' = Event("user", "handleResolveSelected", "", "")
    /\ UNCHANGED <<pc, worker, audit, cat, orphans, runs>>
    /\ UNCHANGED treeVars
    /\ viewKept

\* ------------------------------------------------------------------------
\* components/DuplicateManagerView: the selection and the smart scan
\* ------------------------------------------------------------------------
duplicatesShown == uiFree /\ state.appMode = "duplicates"

itemIds(items) == {items[k].bookmark.id : k \in 1..Len(items)}

\* handleToggleSelect (lines 25-33).
HandleToggleSelect(id) ==
    /\ duplicatesShown
    /\ id \in allOfSets(state.duplicates)
    /\ view' = [view EXCEPT !.selectedIds =
                    IF id \in @ THEN @ \ {id} ELSE @ \cup {id}]
    /\ event' = Event("user", "handleToggleSelect", "", "")
    /\ UNCHANGED <<state, pc, worker, audit, cat, orphans, runs>>
    /\ UNCHANGED treeVars

\* handleSelectGroup (lines 35-42), called with !allSelected of the group.
HandleSelectGroup(g) ==
    /\ duplicatesShown
    /\ g \in 1..Len(state.duplicates)
    /\ LET items == state.duplicates[g].items
           shouldSelect == ~(itemIds(items) \subseteq view.selectedIds)
       IN  view' = [view EXCEPT !.selectedIds =
                       IF shouldSelect THEN @ \cup itemIds(items)
                       ELSE @ \ itemIds(items)]
    /\ event' = Event("user", "handleSelectGroup", "", "")
    /\ UNCHANGED <<state, pc, worker, audit, cat, orphans, runs>>
    /\ UNCHANGED treeVars

\* Array.from(new Set(duplicates.map(d => d.url))).
urlsArray(duplicates) == firstUrls(duplicates, {})

\* newHealth[url], "unknown" (undefined) without an entry.
healthOf(health, url) ==
    IF \E e \in health : e.url = url
    THEN (CHOOSE e \in health : e.url = url).health
    ELSE "unknown"

\* { ...prev, ...newHealth }
spread(prev, newHealth) ==
    {e \in prev : healthOf(newHealth, e.url) = "unknown"} \cup newHealth

\* (path || '').split('/').length of the joined path: the empty path gives
\* [''], n titles joined with ' / ' give n pieces (no title of the model
\* holds a '/').
splitLength(path) == IF path = <<>> THEN 1 ELSE Len(path)

\* The comparator of the smart scan (lines 82-90).
compareItems(a, b) ==
    IF splitLength(a.path) # splitLength(b.path)
    THEN splitLength(a.path) - splitLength(b.path)
    ELSE addedAt(b.bookmark) - addedAt(a.bookmark)

\* [...group.items].sort(comparator): a stable sort.
RECURSIVE insertByScore(_, _)
insertByScore(sorted, item) ==
    IF sorted = <<>> THEN <<item>>
    ELSE IF compareItems(item, Head(sorted)) < 0 THEN <<item>> \o sorted
    ELSE <<Head(sorted)>> \o insertByScore(Tail(sorted), item)

RECURSIVE sortByScore(_)
sortByScore(items) ==
    IF items = <<>> THEN <<>>
    ELSE insertByScore(sortByScore(SubSeq(items, 1, Len(items) - 1)),
                       items[Len(items)])

\* A plausible slip: the best id is not taken out of the selection.
RECURSIVE recommend_bestLeftAsItWas(_, _)
recommend_bestLeftAsItWas(groups, v) ==
    IF groups = <<>> THEN v
    ELSE LET group == Head(groups)
             sorted == sortByScore(group.items)
         IN  recommend_bestLeftAsItWas(Tail(groups),
                 IF healthOf(v.newHealth, group.url) = "dead"
                 THEN [v EXCEPT !.newSelections = @ \cup itemIds(group.items)]
                 ELSE [v EXCEPT
                         !.newSelections = @ \cup itemIds(Tail(sorted)),
                         !.sorted = Append(@, [url |-> group.url, items |-> sorted])])

\* The recommendation loop (lines 70-101) over the groups, in order.
RECURSIVE recommend(_, _)
recommend(groups, v) ==
    IF groups = <<>> THEN v
    ELSE LET group == Head(groups)
             sorted == sortByScore(group.items)
             bestId == sorted[1].bookmark.id
         IN  recommend(Tail(groups),
                 IF healthOf(v.newHealth, group.url) = "dead"
                 THEN [v EXCEPT !.newSelections = @ \cup itemIds(group.items)]
                 ELSE [v EXCEPT
                         !.newSelections = (@ \ {bestId}) \cup itemIds(Tail(sorted)),
                         !.sorted = Append(@, [url |-> group.url, items |-> sorted])])

scanBatches == chunksOf(urlsArray(state.duplicates), ScanBatchSize)

\* The HEAD requests of the batch at v.i start, or the loop is over: the
\* recommendations are made and set (lines 55-57, 69-104).
scanBatch(v) ==
    IF v.i <= Len(scanBatches)
    THEN /\ view' = [v EXCEPT !.pending = Range(scanBatches[v.i])]
         /\ event' = Event("probes", "performSmartScan", "", "")
    ELSE /\ view' = LET r == recommend(state.duplicates, v)
                    IN  [r EXCEPT !.selectedIds = r.newSelections,
                                  !.isScanning = FALSE]
         /\ event' = Event("end", "performSmartScan", "done", "")

\* performSmartScan up to its first await; the button is disabled while a
\* scan runs.
PerformSmartScan ==
    /\ duplicatesShown
    /\ ~view.isScanning
    /\ scanBatch([view EXCEPT !.isScanning = TRUE,
                              !.newSelections = view.selectedIds,
                              !.before = view.selectedIds,
                              !.newHealth = {}, !.i = 1, !.pending = {},
                              !.sorted = <<>>])
    /\ UNCHANGED <<state, pc, worker, audit, cat, orphans, runs>>
    /\ UNCHANGED treeVars

\* A HEAD request of the batch resolves ('ok') or throws ('dead').
ScanProbeSettles(url, health) ==
    /\ state.appMode = "duplicates"
    /\ view.isScanning
    /\ url \in view.pending
    /\ view' = [view EXCEPT !.pending = @ \ {url},
                            !.newHealth = @ \cup {[url |-> url, health |-> health]}]
    /\ event' = Event("probe", "performSmartScan", "", "")
    /\ UNCHANGED <<state, pc, worker, audit, cat, orphans, runs>>
    /\ UNCHANGED treeVars

\* Promise.all of the batch resolves (lines 57-67).
ScanBatchDone ==
    /\ state.appMode = "duplicates"
    /\ view.isScanning
    /\ view.pending = {}
    /\ scanBatch([view EXCEPT !.linkHealth = spread(@, view.newHealth),
                              !.i = @ + 1])
    /\ UNCHANGED <<state, pc, worker, audit, cat, orphans, runs>>
    /\ UNCHANGED treeVars

\* findAndSetEmptyFolders with its timer callback.
FindAndSetEmptyFolders ==
    /\ toolbarShown
    /\ LET empty == findEmptyFolders(state.bookmarks[1])
       IN  IF Len(empty) = 0
           THEN /\ state' = dispatchAll(state, <<SetLoading(TRUE), SetLoading(FALSE)>>)
                /\ event' = Event("end", "findAndSetEmptyFolders", "none",
                                  "No empty folders found!")
           ELSE /\ state' = dispatchAll(state,
                      <<SetLoading(TRUE), Action("SET_EMPTY_FOLDERS", empty),
                        SetLoading(FALSE)>>)
                /\ event' = Event("end", "findAndSetEmptyFolders", "found", "")
    /\ UNCHANGED <<pc, worker, audit, cat, orphans, runs>>
    /\ UNCHANGED treeVars
    /\ viewKept

HandleDeleteEmptyFolders ==
    /\ uiFree
    /\ state.appMode = "emptyFolders"
    /\ Len(state.emptyFolders) # 0
    /\ state' = appReducer(state,
          Action("SHOW_CONFIRMATION",
                 [onConfirm |-> Action("DELETE_EMPTY_FOLDERS", <<>>)]))
    /\ event' = Event("user", "handleDeleteEmptyFolders", "", "")
    /\ UNCHANGED <<pc, worker, audit, cat, orphans, runs>>
    /\ UNCHANGED treeVars
    /\ viewKept

\* The 'Exit' and 'Cancel' buttons of the views.
ExitMode ==
    /\ uiFree
    /\ state.appMode \in {"duplicates", "emptyFolders", "healthAudit", "fixItAll"}
    /\ state' = appReducer(state, Action("SET_APP_MODE", "normal"))
    /\ event' = Event("user", "handleExitMode", "", "")
    /\ UNCHANGED <<pc, worker, audit, cat, orphans, runs>>
    /\ UNCHANGED treeVars
    /\ viewKept

\* The health audit report view.
reportedIds ==
    IF state.healthAuditReport = <<>> THEN {}
    ELSE {state.healthAuditReport[1].issues[k].bookmark.id :
              k \in 1..Len(state.healthAuditReport[1].issues)}

HandleToggleSelection(issueId) ==
    /\ uiFree
    /\ state.appMode = "healthAudit"
    /\ issueId \in reportedIds
    /\ state' = appReducer(state,
          Action("TOGGLE_ISSUE_SELECTION", [issueId |-> issueId]))
    /\ event' = Event("user", "handleToggleSelection", "", "")
    /\ UNCHANGED <<pc, worker, audit, cat, orphans, runs>>
    /\ UNCHANGED treeVars
    /\ viewKept

HandleDeleteSelectedIssues ==
    /\ uiFree
    /\ state.appMode = "healthAudit"
    /\ state.healthAuditReport # <<>>
    /\ state.selectedIssues # {}
    /\ state' = appReducer(state,
          Action("SHOW_CONFIRMATION",
                 [onConfirm |-> Action("DELETE_SELECTED_ISSUES", <<>>)]))
    /\ event' = Event("user", "handleDeleteSelectedIssues", "", "")
    /\ UNCHANGED <<pc, worker, audit, cat, orphans, runs>>
    /\ UNCHANGED treeVars
    /\ viewKept

HandleUpdateUrl(k) ==
    /\ uiFree
    /\ state.appMode = "healthAudit"
    /\ state.healthAuditReport # <<>>
    /\ k \in 1..Len(state.healthAuditReport[1].issues)
    /\ LET issue == state.healthAuditReport[1].issues[k]
       IN  /\ issue.newUrl # NoUrl
           /\ state' = appReducer(state,
                 Action("SHOW_CONFIRMATION",
                        [onConfirm |->
                            Action("UPDATE_BOOKMARK_URL",
                                   [bookmarkId |-> issue.bookmark.id,
                                    newUrl |-> issue.newUrl[1]])]))
    /\ event' = Event("user", "handleUpdateUrl", "", "")
    /\ UNCHANGED <<pc, worker, audit, cat, orphans, runs>>
    /\ UNCHANGED treeVars
    /\ viewKept

\* handleApply of the Fix-It-All view.
HandleApply ==
    /\ uiFree
    /\ state.appMode = "fixItAll"
    /\ state.proposedBookmarks # <<>>
    /\ state' = appReducer(state,
          Action("SHOW_CONFIRMATION",
                 [onConfirm |-> Action("APPLY_FIX_IT_ALL", <<>>)]))
    /\ event' = Event("user", "handleApply", "", "")
    /\ UNCHANGED <<pc, worker, audit, cat, orphans, runs>>
    /\ UNCHANGED treeVars
    /\ viewKept

\* The two buttons of the confirmation modal.
Confirm ==
    /\ pc = "idle"
    /\ ~state.loadingState.isLoading
    /\ state.confirmation # <<>>
    /\ LET onConfirm == state.confirmation[1].onConfirm
       IN  IF onConfirm.type = "_doParse"
           THEN doParse(state, onConfirm.payload)
           ELSE /\ state' = appReducer(state, onConfirm)
                /\ UNCHANGED <<pc, worker>>
    /\ event' = EndEvent("confirm", state.confirmation[1].onConfirm.type, "", "",
                         <<state>>)
    /\ UNCHANGED <<audit, cat, orphans, runs>>
    /\ UNCHANGED treeVars
    /\ viewKept

Cancel ==
    /\ pc = "idle"
    /\ ~state.loadingState.isLoading
    /\ state.confirmation # <<>>
    /\ state' = appReducer(state, Action("HIDE_CONFIRMATION", <<>>))
    /\ event' = Event("user", "onCancel", "", "")
    /\ UNCHANGED <<pc, worker, audit, cat, orphans, runs>>
    /\ UNCHANGED treeVars
    /\ viewKept

\* ------------------------------------------------------------------------
\* Health audit: runBookmarkHealthAudit (AppContext.tsx 551-616) running
\* runAudit (linkCheckerService)
\* ------------------------------------------------------------------------
auditChunks == chunksOf(audit.bookmarksToAiCheck, AuditChunkSize)

\* The type LinkStatus (App.tsx 199-210).
LinkStatus ==
    {"OK", "404 Not Found", "301 Permanent Redirect", "503 Service Unavailable",
     "Timeout", "Content Shift", "Paywall Detected", "Domain For Sale",
     "Parked Domain", "Network Error", "Unknown Error"}

\* A status no LinkStatus has, and the value read from an entry without a
\* status property.
OtherStatus == "Gone"

Undefined == "undefined"

\* Entries that break the response schema in their status.
BadEntries(chunk) ==
    {[id |-> id, status |-> status, newUrl |-> NoUrl] :
        id \in Range(nodeIds(chunk)), status \in {OtherStatus, Undefined}}

\* The answers of the oracle to an audit batch: an array of at most maxLen
\* entries, an array of one entry that breaks the schema, or a failure.  An
\* entry without an id finds no bookmark, as one with a foreign id.
AuditEntries(chunk) ==
    {Null}
    \cup {[id |-> id, status |-> "OK", newUrl |-> NoUrl] :
              id \in Range(nodeIds(chunk)) \cup {ForeignId}}
    \cup {[id |-> id, status |-> "404 Not Found", newUrl |-> NoUrl] :
              id \in Range(nodeIds(chunk)) \cup {ForeignId}}
    \cup {[id |-> id, status |-> "301 Permanent Redirect", newUrl |-> <<MovedUrl>>] :
              id \in Range(nodeIds(chunk))}

RECURSIVE SeqsUpTo(_, _)
SeqsUpTo(S, n) ==
    IF n = 0 THEN {<<>>}
    ELSE LET shorter == SeqsUpTo(S, n - 1)
         IN  shorter \cup {Append(s, x) : s \in shorter, x \in S}

AuditReplies(chunk, maxLen) ==
    {Reply(r) : r \in SeqsUpTo(AuditEntries(chunk), maxLen)}
    \cup {Reply(<<e>>) : e \in BadEntries(chunk)}
    \cup {Failure(text) : text \in ErrorTexts}

\* An argument of onProgress.
Progress(stage, checked, issuesFound, total) ==
    [stage |-> stage, checked |-> checked, issuesFound |-> issuesFound,
     total |-> total]

\* The number of bookmarks of the result loop of Stage 1 between two reports.
ProgressEvery == 50

\* The reports of the result loop of Stage 1 (lines 366-376) and the one that
\* follows it (line 379).
precheckProgress(bookmarks, probes) ==
    LET total == Len(bookmarks)
        every == SelectSeq([k \in 1..total |-> k], LAMBDA k : k % ProgressEvery = 0)
    IN  [r \in 1..Len(every) |->
            Progress("PRECHECK", every[r],
                     Len(networkErrors(SubSeq(bookmarks, 1, every[r]),
                                       SubSeq(probes, 1, every[r]))),
                     total)]
        \o <<Progress("PRECHECK", total, Len(networkErrors(bookmarks, probes)), total)>>

\* aiCheckedBookmarksInBatches: the bookmarks of the batches that succeeded.
aiCheckedBookmarksInBatches(a) ==
    LET chunks == chunksOf(a.bookmarksToAiCheck, AuditChunkSize)
        RECURSIVE sum(_)
        sum(k) == IF k = 0 THEN 0
                  ELSE sum(k - 1) + (IF k \in a.succeeded THEN Len(chunks[k]) ELSE 0)
    IN  sum(Len(chunks))

\* The report at the head of a batch (line 398).
aiProgress(a) ==
    Progress("AICHECK",
             Len(a.bookmarks) - Len(a.bookmarksToAiCheck)
                 + aiCheckedBookmarksInBatches(a),
             Len(a.allIssues), Len(a.bookmarks))

\* The handler starts and runAudit sends one probe for every bookmark.
RunBookmarkHealthAudit ==
    /\ toolbarShown
    /\ runs' = runs + 1
    /\ LET allBookmarks == flattenBookmarks(state.bookmarks[1])
       IN  audit' = [noAudit EXCEPT
                        !.bookmarks = allBookmarks,
                        !.pathMap = buildPathMap(state.bookmarks[1], <<>>),
                        !.probes = [i \in 1..Len(allBookmarks) |-> "pending"],
                        !.before = state,
                        !.progress = <<Progress("PRECHECK", 0, 0, Len(allBookmarks))>>]
    /\ state' = appReducer(state, SetLoading(TRUE))
    /\ pc' = "precheck"
    /\ event' = Event("start", "audit", "", "")
    /\ UNCHANGED <<worker, cat, orphans>>
    /\ UNCHANGED treeVars
    /\ viewKept

\* One HEAD request is answered or fails.
ProbeSettles(i, settled) ==
    /\ pc = "precheck"
    /\ i \in 1..Len(audit.probes)
    /\ audit.probes[i] = "pending"
    /\ audit' = [audit EXCEPT !.probes[i] = settled]
    /\ event' = Event("probe", "audit", "", "")
    /\ UNCHANGED <<state, pc, worker, cat, orphans, runs>>
    /\ UNCHANGED treeVars
    /\ viewKept

\* The end of runAudit (lines 466-478) and what runBookmarkHealthAudit does
\* with the report (lines 596-615).
auditReturns(running) ==
    LET a == [running EXCEPT
                 !.progress = Append(@, Progress("DONE", Len(running.bookmarks),
                                             Len(running.allIssues),
                                             Len(running.bookmarks)))]
        report == reportWithPaths(rawAuditReport(a.allIssues, Len(a.bookmarks)),
                                  a.pathMap)
    IN  /\ audit' = noAudit
        /\ pc' = "idle"
        /\ IF Len(report.issues) = 0
           THEN /\ state' = dispatchAll(state, <<SetLoading(FALSE), SetLoading(FALSE)>>)
                /\ event' = EndEvent("end", "audit", "noIssues",
                                     "Health Audit complete. No issues found!", <<a>>)
           ELSE /\ state' = dispatchAll(state,
                      <<Action("SET_HEALTH_AUDIT_REPORT", report), SetLoading(FALSE)>>)
                /\ event' = EndEvent("end", "audit", "report", "", <<a>>)

\* A plausible slip: the handler without its finally, the overlay taken away
\* only where a report or its absence is announced.
auditThrows_noFinally(a, name) ==
    /\ audit' = noAudit
    /\ pc' = "idle"
    /\ state' = state
    /\ event' = EndEvent("end", "audit", name,
                         "An error occurred during the Health Audit", <<a>>)

\* runAudit throws and the catch of runBookmarkHealthAudit (611-615) runs.
auditThrows(a, name) ==
    /\ audit' = noAudit
    /\ pc' = "idle"
    /\ state' = appReducer(state, SetLoading(FALSE))
    /\ event' = EndEvent("end", "audit", name,
                         "An error occurred during the Health Audit", <<a>>)

\* Promise.all of the probes resolves; the result loop and the chunking run.
PrecheckDone ==
    /\ pc = "precheck"
    /\ allSettled(audit.probes)
    /\ LET a == [audit EXCEPT
                    !.allIssues = networkErrors(audit.bookmarks, audit.probes),
                    !.bookmarksToAiCheck = survivors(audit.bookmarks, audit.probes),
                    !.progress = @ \o precheckProgress(audit.bookmarks, audit.probes),
                    !.index = 1,
                    !.attempts =
                        [k \in 1..Len(chunksOf(survivors(audit.bookmarks, audit.probes),
                                               AuditChunkSize)) |-> 0]]
       IN  IF Len(a.bookmarksToAiCheck) = 0
           THEN auditReturns(a)
           ELSE /\ audit' = a
                /\ pc' = "aicheck"
                /\ state' = appReducer(state, SetLoadingMessage)
                /\ event' = Event("precheckDone", "audit", "", "")
    /\ UNCHANGED <<worker, cat, orphans, runs>>
    /\ UNCHANGED treeVars
    /\ viewKept

\* ai.models.generateContent for the current batch.
AiRequest ==
    /\ pc = "aicheck"
    /\ audit' = [audit EXCEPT
                    !.attempts[audit.index] = @ + 1,
                    !.submitted = @ \cup Range(nodeIds(auditChunks[audit.index])),
                    !.fullErrorText = <<>>,
                    !.progress = IF audit.retries = 0
                                 THEN Append(@, aiProgress(audit)) ELSE @]
    /\ pc' = "awaitAI"
    /\ event' = Event("request", "audit", "", "")
    /\ UNCHANGED <<state, worker, cat, orphans, runs>>
    /\ UNCHANGED treeVars
    /\ viewKept

\* The batch loop after an attempt: the next batch, or the end of runAudit.
auditNextBatch(a) ==
    IF a.index < Len(chunksOf(a.bookmarksToAiCheck, AuditChunkSize))
    THEN /\ audit' = [a EXCEPT !.index = @ + 1, !.retries = 0]
         /\ pc' = "aicheck"
         /\ state' = appReducer(state, SetLoadingMessage)
         /\ event' = Event("batchDone", "audit", "", "")
    ELSE auditReturns(a)

\* A plausible slip: the catch without the quota test, every failure being
\* retried.
auditCatch_noQuotaTest(a, fullErrorText) ==
    IF a.retries + 1 >= MAX_RETRIES
    THEN auditNextBatch([a EXCEPT !.retries = @ + 1,
                                  !.exhausted = @ \cup {a.index}])
    ELSE /\ audit' = [a EXCEPT !.retries = @ + 1]
         /\ pc' = "aicheck"
         /\ state' = state
         /\ event' = Event("retry", "audit", "", "")

\* The catch of lines 446-461 for an error with the given text.
auditCatch(a, fullErrorText) ==
    IF includes(fullErrorText, "quota")
    THEN auditThrows(a, "quota")
    ELSE IF a.retries + 1 >= MAX_RETRIES
    THEN auditNextBatch([a EXCEPT !.retries = @ + 1,
                                  !.exhausted = @ \cup {a.index}])
    ELSE /\ audit' = [a EXCEPT !.retries = @ + 1]
         /\ pc' = "aicheck"
         /\ state' = state
         /\ event' = Event("retry", "audit", "", "")

\* The oracle answers the request in flight, with at most maxLen entries.
AiRespond(maxLen) ==
    /\ pc = "awaitAI"
    /\ \E response \in AuditReplies(auditChunks[audit.index], maxLen) :
          IF response.kind = "error"
          THEN auditCatch([audit EXCEPT
                              !.quotaFailed = includes(response.text, "quota"),
                              !.fullErrorText = <<response.text>>],
                          response.text)
          ELSE LET pushed == pushIssues(response.results, auditChunks[audit.index],
                                        audit.allIssues)
                   a == [audit EXCEPT !.allIssues = pushed.allIssues]
               IN  IF pushed.threw
                   THEN auditCatch([a EXCEPT !.fullErrorText = <<{}>>], {})
                   ELSE auditNextBatch([a EXCEPT !.succeeded = @ \cup {a.index}])
    /\ UNCHANGED <<worker, cat, orphans, runs>>
    /\ UNCHANGED treeVars
    /\ viewKept

\* ------------------------------------------------------------------------
\* Categorization: handleAutoCategorize (413-462) and generateFixItAllProposal
\* (618-740), both running geminiService.categorizeBookmarks
\* ------------------------------------------------------------------------
catChunks(c) == chunksOf(c.bookmarks, CatChunkSize)

\* The answers of the oracle to a categorization batch.
IdLists(chunk) ==
    SeqsUpTo(Range(nodeIds(chunk)) \cup {ForeignId}, MaxIdsPerCategory)

CatItems(chunk) ==
    {Null}
    \cup {[folderName |-> n, bookmarkIds |-> l] :
              n \in CategoryNames, l \in IdLists(chunk)}

CatReplies(chunk, maxLen) ==
    {Reply(r) : r \in SeqsUpTo(CatItems(chunk), maxLen)}
    \cup {Failure(text) : text \in ErrorTexts}

Task(status, retries, result) ==
    [status |-> status, retries |-> retries, result |-> result]

\* The rest of handleAutoCategorize once categorizeBookmarks has returned
\* (lines 421-461).  The handler reads the state it was made with (c.before).
autoCategorizeDone(c, categorizedResults) ==
    LET before == c.before
        allBookmarksNow == flattenBookmarks(before.bookmarks[1])
        now == c.run
        children == aiFolders(categorizedResults, allBookmarksNow, now, 1)
        aiCategoryParent ==
            categoryFolder(IdAt("ai-categories-parent", "", 0, now),
                           "AI Categories", children)
        newBookmarks ==
            <<aiCategoryParent>>
            \o removeBookmarksByIds(before.bookmarks[1], placedIds(children))
        newStats ==
            [bookmarkCount |-> IF before.stats = <<>> THEN 0
                               ELSE before.stats[1].bookmarkCount,
             folderCount |-> (IF before.stats = <<>> THEN 0
                              ELSE before.stats[1].folderCount)
                             + Len(children) + 1]
    IN  /\ cat' = noCat
        /\ pc' = "idle"
        /\ IF Len(categorizedResults) = 0
           THEN /\ state' = appReducer(state, SetLoading(FALSE))
                /\ event' = EndEvent("end", "categorize", "nothing",
                                     "The AI could not create any new categories",
                                     <<c>>)
           ELSE IF Len(children) > 0
           THEN /\ state' = dispatchAll(state,
                      <<SetLoadingMessage,
                        Action("SET_BOOKMARKS", createSearchIndex(newBookmarks)),
                        Action("SET_STATS", newStats),
                        Action("SET_ACTIVE_FOLDER", aiCategoryParent.id),
                        SetLoading(FALSE)>>)
                /\ event' = EndEvent("end", "categorize", "categorized", "", <<c>>)
           ELSE /\ state' = dispatchAll(state, <<SetLoadingMessage, SetLoading(FALSE)>>)
                /\ event' = EndEvent("end", "categorize", "invalid",
                                     "no valid categories could be created", <<c>>)

\* A plausible slip: the new tree is dispatched as the live tree, as
\* handleAutoCategorize does with its own.
fixItAllDone_setsLive(c, categorizedResults) ==
    /\ cat' = noCat
    /\ pc' = "idle"
    /\ state' = dispatchAll(state,
          <<Action("SET_BOOKMARKS",
                   proposedTree(categorizedResults, c.bookmarks, c.run)),
            SetLoading(FALSE)>>)
    /\ event' = EndEvent("end", "fixItAll", "proposal", "", <<c>>)

\* The rest of generateFixItAllProposal (lines 684-729).
fixItAllDone(c, categorizedResults) ==
    /\ cat' = noCat
    /\ pc' = "idle"
    /\ state' = dispatchAll(state,
          <<Action("SET_PROPOSED_BOOKMARKS",
                   proposedTree(categorizedResults, c.bookmarks, c.run)),
            SetLoading(FALSE)>>)
    /\ event' = EndEvent("end", "fixItAll", "proposal", "", <<c>>)

\* categorizeBookmarks from the group of batches at c.i on: the batches of
\* the group send their requests at once; after the last group the merge
\* (232-260) and the handler's continuation run.
catGroup(c) ==
    IF c.i < Len(catChunks(c))
    THEN LET last == IF c.i + CatConcurrency < Len(catChunks(c))
                     THEN c.i + CatConcurrency ELSE Len(catChunks(c))
         IN  /\ cat' = [c EXCEPT !.tasks =
                           [k \in 1..(last - c.i) |-> Task("waiting", 0, <<>>)]]
             /\ pc' = "categorize"
             /\ state' = appReducer(state, SetLoading(TRUE))
             /\ event' = Event("request", c.handler, "", "")
    ELSE IF c.handler = "categorize"
    THEN autoCategorizeDone(c, mergedValues(c.allResults))
    ELSE fixItAllDone(c, mergedValues(c.allResults))

\* handleAutoCategorize: nothing happens without a tree or with the flag up.
HandleAutoCategorize ==
    /\ toolbarShown
    /\ ~state.isAIQuotaExceeded
    /\ runs' = runs + 1
    /\ catGroup([noCat EXCEPT !.handler = "categorize",
                             !.run = runs + 1,
                             !.bookmarks = flattenBookmarks(state.bookmarks[1]),
                             !.before = state])
    /\ UNCHANGED <<worker, audit, orphans>>
    /\ UNCHANGED treeVars
    /\ viewKept


\* Promise.all of a group: every batch of it has returned.
groupDone(tasks) == \A k \in 1..Len(tasks) : tasks[k].status = "done"

\* groupResults.forEach(res => allResults.push(...res))
RECURSIVE groupResults(_)
groupResults(tasks) ==
    IF tasks = <<>> THEN <<>> ELSE Head(tasks).result \o groupResults(Tail(tasks))

\* The batches of a group that have not returned, as they go on alone.
unfinished(tasks) ==
    LET left == SelectSeq(tasks, LAMBDA t : t.status # "done")
    IN  [k \in 1..Len(left) |-> Task(left[k].status, left[k].retries, <<>>)]

\* A batch of the group has returned: the next group, or the end.
catBatchDone(c) ==
    IF groupDone(c.tasks)
    THEN catGroup([c EXCEPT !.allResults = @ \o groupResults(c.tasks),
                            !.i = @ + CatConcurrency,
                            !.tasks = <<>>])
    ELSE /\ cat' = c
         /\ pc' = "categorize"
         /\ state' = state
         /\ event' = Event("batchDone", c.handler, "", "")

\* A batch throws DailyQuotaExceededError: Promise.all rejects and the catch
\* of the handler runs (452-461, 731-739).
catThrows(c, k) ==
    /\ cat' = noCat
    /\ orphans' = orphans \o unfinished([c.tasks EXCEPT ![k].status = "done"])
    /\ pc' = "idle"
    /\ state' = dispatchAll(state,
          <<Action("SET_AI_QUOTA_EXCEEDED", TRUE), SetLoading(FALSE)>>)
    /\ event' = EndEvent("end", c.handler, "quota",
                         IF c.handler = "categorize"
                         THEN "AI Categorization Failed: daily usage quota"
                         ELSE "Fix It All Failed: Quota exceeded.",
                         <<c>>)

isDailyQuotaError(fullErrorText) ==
    \/ includes(fullErrorText, "quota")
    \/ includes(fullErrorText, "billing")
    \/ includes(fullErrorText, "429")

\* The oracle answers the request of batch k of the running group, with at
\* most maxLen categories (processBatch, lines 96-184).
CatRespond(k, maxLen) ==
    /\ pc = "categorize"
    /\ k \in 1..Len(cat.tasks)
    /\ cat.tasks[k].status = "waiting"
    /\ \E response \in CatReplies(catChunks(cat)[cat.i + k], maxLen) :
          IF response.kind = "array"
          THEN /\ catBatchDone([cat EXCEPT !.tasks[k] =
                       Task("done", @.retries, validItems(response.results))])
               /\ UNCHANGED orphans
          ELSE IF isDailyQuotaError(response.text)
          THEN catThrows(cat, k)
          ELSE IF cat.tasks[k].retries + 1 < MAX_RETRIES
          THEN /\ cat' = [cat EXCEPT !.tasks[k] = Task("sleeping", @.retries + 1, <<>>)]
               /\ event' = Event("retry", cat.handler, "", "")
               /\ UNCHANGED <<state, pc, orphans>>
          ELSE /\ catBatchDone([cat EXCEPT !.tasks[k] =
                       Task("done", @.retries + 1, <<>>)])
               /\ UNCHANGED orphans
    /\ UNCHANGED <<worker, audit, runs>>
    /\ UNCHANGED treeVars
    /\ viewKept

\* The back-off of batch k is over and it asks again.
CatRetry(k) ==
    /\ pc = "categorize"
    /\ k \in 1..Len(cat.tasks)
    /\ cat.tasks[k].status = "sleeping"
    /\ cat' = [cat EXCEPT !.tasks[k].status = "waiting"]
    /\ event' = Event("request", cat.handler, "", "")
    /\ UNCHANGED <<state, pc, worker, audit, orphans, runs>>
    /\ UNCHANGED treeVars
    /\ viewKept

RECURSIVE without(_, _)
without(seq, k) ==
    IF seq = <<>> THEN <<>>
    ELSE IF k = 1 THEN Tail(seq)
    ELSE <<Head(seq)>> \o without(Tail(seq), k - 1)

\* A batch left over by an aborted run gets its answer; nobody reads what
\* it returns or throws.
OrphanRespond(k, outcome) ==
    /\ k \in 1..Len(orphans)
    /\ orphans[k].status = "waiting"
    /\ IF outcome = "transient" /\ orphans[k].retries + 1 < MAX_RETRIES
       THEN orphans' = [orphans EXCEPT ![k] = Task("sleeping", @.retries + 1, <<>>)]
       ELSE orphans' = without(orphans, k)
    /\ event' = Event("orphan", "orphan", "", "")
    /\ UNCHANGED <<state, pc, worker, audit, cat, runs>>
    /\ UNCHANGED treeVars
    /\ viewKept

OrphanRetry(k) ==
    /\ k \in 1..Len(orphans)
    /\ orphans[k].status = "sleeping"
    /\ orphans' = [orphans EXCEPT ![k].status = "waiting"]
    /\ event' = Event("request", "orphan", "", "")
    /\ UNCHANGED <<state, pc, worker, audit, cat, runs>>
    /\ UNCHANGED treeVars
    /\ viewKept

\* ------------------------------------------------------------------------
\* Fix It All: steps 1 and 2 (lines 626-673)
\* ------------------------------------------------------------------------
fixChunks(c) == chunksOf(c.uniqueBookmarks, FixChunkSize)

\* The HEAD requests of the chunk at c.j start, or step 3 starts.
fixProbeChunk(c) ==
    IF c.j <= Len(fixChunks(c))
    THEN /\ cat' = [c EXCEPT !.probes =
                       [p \in 1..Len(fixChunks(c)[c.j]) |-> "pending"]]
         /\ pc' = "fixProbes"
         /\ state' = appReducer(state, SetLoading(TRUE))
         /\ event' = Event("probes", "fixItAll", "", "")
    ELSE catGroup([c EXCEPT !.bookmarks =
                      SelectSeq(c.allBookmarks, LAMBDA bm : bm.id \notin c.idsToRemove),
                            !.probes = <<>>])

\* The button is disabled while the quota flag is up.
GenerateFixItAllProposal ==
    /\ toolbarShown
    /\ ~state.isAIQuotaExceeded
    /\ runs' = runs + 1
    /\ LET allBookmarks == flattenBookmarks(state.bookmarks[1])
           idsToRemove == newerCopies(findDuplicates(allBookmarks))
       IN  fixProbeChunk([noCat EXCEPT
               !.handler = "fixItAll",
               !.run = runs + 1,
               !.allBookmarks = allBookmarks,
               !.idsToRemove = idsToRemove,
               !.uniqueBookmarks =
                   SelectSeq(allBookmarks, LAMBDA bm : bm.id \notin idsToRemove),
               !.j = 1,
               !.before = state])
    /\ UNCHANGED <<worker, audit, orphans>>
    /\ UNCHANGED treeVars
    /\ viewKept

FixProbeSettles(p, isAlive) ==
    /\ pc = "fixProbes"
    /\ p \in 1..Len(cat.probes)
    /\ cat.probes[p] = "pending"
    /\ cat' = [cat EXCEPT !.probes[p] = IF isAlive THEN "fulfilled" ELSE "rejected"]
    /\ event' = Event("probe", "fixItAll", "", "")
    /\ UNCHANGED <<state, pc, worker, audit, orphans, runs>>
    /\ UNCHANGED treeVars
    /\ viewKept

\* Promise.all of the chunk resolves (lines 662-672).
FixProbesDone ==
    /\ pc = "fixProbes"
    /\ allSettled(cat.probes)
    /\ LET chunk == fixChunks(cat)[cat.j]
           dead == {chunk[p].id : p \in {q \in 1..Len(chunk) : cat.probes[q] = "rejected"}}
       IN  fixProbeChunk([cat EXCEPT !.idsToRemove = @ \cup dead, !.j = @ + 1])
    /\ UNCHANGED <<worker, audit, orphans, runs>>
    /\ UNCHANGED treeVars
    /\ viewKept

\* ------------------------------------------------------------------------
\* The specifications
\* ------------------------------------------------------------------------
AuditFiles == {FileOf(t) : t \in WorkerTrees(MaxAuditNodes, {"https://A.com"}, {"100"})}

AppFiles ==
    {FileOf(t) : t \in WorkerTrees(MaxAppNodes, Urls, {"100"})} \cup {BadFile}

Settled == {"fulfilled", "rejected"}

\* The steps of a health audit, the oracle answering with at most maxLen
\* entries, while fewer than maxRuns handlers have been started.
AuditSteps(maxLen, maxRuns) ==
    \/ runs < maxRuns /\ RunBookmarkHealthAudit
    \/ \E i \in 1..MaxAuditNodes, settled \in Settled : ProbeSettles(i, settled)
    \/ PrecheckDone
    \/ AiRequest
    \/ AiRespond(maxLen)

\* The steps of the two categorizing handlers.
CategorizeSteps(maxLen, maxRuns) ==
    \/ runs < maxRuns /\ HandleAutoCategorize
    \/ runs < maxRuns /\ GenerateFixItAllProposal
    \/ \E p \in 1..FixChunkSize, isAlive \in BOOLEAN : FixProbeSettles(p, isAlive)
    \/ FixProbesDone
    \/ \E k \in 1..CatConcurrency : CatRespond(k, maxLen)
    \/ \E k \in 1..CatConcurrency : CatRetry(k)
    \/ \E k \in 1..CatConcurrency, outcome \in {"settled", "transient"} :
          OrphanRespond(k, outcome)
    \/ \E k \in 1..CatConcurrency : OrphanRetry(k)

AppInit0 ==
    /\ tree = <<>>
    /\ ids = {}
    /\ op = "app"
    /\ arg = <<>>
    /\ out = <<>>
    /\ removedCount = 0
    /\ AppInit

\* The health audit of one imported file.
AuditNext ==
    \/ \E content \in AuditFiles : state.appMode = "welcome" /\ ParseFile(content)
    \/ WorkerMessage
    \/ ParseSuccess
    \/ AuditSteps(MaxReplyLen, OneRun)

SpecAudit == AppInit0 /\ [][AuditNext]_vars

\* The oracle-backed handlers one after another on one small file.
QuotaFiles == {FileOf(t) : t \in WorkerTrees(MaxQuotaNodes, {"https://A.com"}, DatesOrNone)}

QuotaNext ==
    \/ \E content \in QuotaFiles : state.appMode = "welcome" /\ ParseFile(content)
    \/ WorkerMessage
    \/ ParseSuccess
    \/ ExitMode
    \/ AuditSteps(AppReplyLen, MaxRuns)
    \/ CategorizeSteps(QuotaReplyLen, MaxRuns)

SpecQuota == AppInit0 /\ [][QuotaNext]_vars

\* The duplicate manager on one imported file: a tree whose bookmarks share
\* one url, with or without a date, or a list of bookmarks of either url.
DuplicateFiles ==
    {FileOf(t) : t \in WorkerTrees(MaxDupNodes, {"https://A.com"}, {"", "100"})}
    \cup {FileOf(parseBookmarks(f)) : f \in BookmarkLists(MaxDupNodes, Urls, {"100"})}

DuplicatesNext ==
    \/ \E content \in DuplicateFiles : state.appMode = "welcome" /\ ParseFile(content)
    \/ WorkerMessage
    \/ ParseSuccess
    \/ FindAndSetDuplicates
    \/ \E id \in allOfSets(state.duplicates) : HandleToggleSelect(id)
    \/ \E g \in 1..Len(state.duplicates) : HandleSelectGroup(g)
    \/ PerformSmartScan
    \/ \E url \in Urls, health \in {"ok", "dead"} : ScanProbeSettles(url, health)
    \/ ScanBatchDone
    \/ ExitMode

SpecDuplicates == AppInit0 /\ [][DuplicatesNext]_vars

\* ------------------------------------------------------------------------
\* Insights and the filtered view: analyzeAndShowInsights (AppContext.tsx
\* 484-521), the InsightsView and the toolbar of the filtered view
\* ------------------------------------------------------------------------
RECURSIVE findNodeById(_, _)
findNodeById(nodes, id) ==
    IF nodes = <<>> THEN <<>>
    ELSE LET node == Head(nodes)
             found == IF node.type = "folder" THEN findNodeById(node.children, id)
                      ELSE <<>>
         IN  IF node.id = id THEN <<node>>
             ELSE IF found # <<>> THEN found
             ELSE findNodeById(Tail(nodes), id)

\* The keys of the Map of analyzeDomains, in the order of their first bookmark.
RECURSIVE domainsOf(_, _)
domainsOf(bookmarks, seen) ==
    IF bookmarks = <<>> THEN <<>>
    ELSE LET domain == hostname(Head(bookmarks).url)
         IN  IF domain \in seen THEN domainsOf(Tail(bookmarks), seen)
             ELSE <<domain>> \o domainsOf(Tail(bookmarks), seen \cup {domain})

\* Array.prototype.sort with the comparator b.count - a.count: a stable sort.
RECURSIVE insertByCount(_, _)
insertByCount(sorted, d) ==
    IF sorted = <<>> THEN <<d>>
    ELSE IF Head(sorted).count - d.count > 0 THEN <<d>> \o sorted
    ELSE <<Head(sorted)>> \o insertByCount(Tail(sorted), d)

RECURSIVE sortByCount(_)
sortByCount(counts) ==
    IF counts = <<>> THEN <<>>
    ELSE insertByCount(sortByCount(SubSeq(counts, 1, Len(counts) - 1)),
                       counts[Len(counts)])

\* The number of domains analyzeDomains returns at most.
TopDomains == 10

analyzeDomains(bookmarks) ==
    LET domains == domainsOf(bookmarks, {})
        counts == [d \in 1..Len(domains) |->
                      [domain |-> domains[d],
                       count  |-> Len(SelectSeq(bookmarks,
                                     LAMBDA b : hostname(b.url) = domains[d]))]]
        sorted == sortByCount(counts)
    IN  SubSeq(sorted, 1, IF Len(sorted) < TopDomains THEN Len(sorted) ELSE TopDomains)

\* The payload of SET_ANALYSIS_RESULTS for the bookmarks analysed (lines
\* 503-518), the keywords and the timeline, which no reducer reads, left out.
analysisOf(bookmarksToAnalyze, folderTitle) ==
    [results |-> [totalCount |-> Len(bookmarksToAnalyze),
                  topDomains |-> analyzeDomains(bookmarksToAnalyze),
                  ageAnalysis |-> analyzeBookmarkAges(bookmarksToAnalyze, Now)],
     folderTitle |-> folderTitle]

\* What analyzeAndShowInsights(folderId) analyses: <<bookmarks, folderTitle>>;
\* folderId is <<>> for the call without an argument.
toAnalyze(bookmarks, folderId) ==
    IF folderId # <<>> /\ folderId[1] # RootId
    THEN LET folder == findNodeById(bookmarks, folderId[1])
         IN  IF folder # <<>>
             THEN <<flattenBookmarks(folder[1].children), <<folder[1].title>>>>
             ELSE <<<<>>, <<>>>>
    ELSE <<flattenBookmarks(bookmarks), <<>>>>

\* analyzeAndShowInsights with its timer callback: 'Global Insights' of the
\* Utilities menu (folderId <<>>) or the button of the active folder.
AnalyzeAndShowInsights(folderId) ==
    /\ toolbarShown
    /\ folderId # <<>> => (folderId = state.activeFolderId /\ folderId[1] # RootId)
    /\ LET analysed == toAnalyze(state.bookmarks[1], folderId)
       IN  IF Len(analysed[1]) = 0
           THEN /\ state' = dispatchAll(state, <<SetLoading(TRUE), SetLoading(FALSE)>>)
                /\ event' = Event("end", "analyzeAndShowInsights", "none",
                                  "No bookmarks to analyze")
           ELSE /\ state' = dispatchAll(state,
                      <<SetLoading(TRUE),
                        Action("SET_ANALYSIS_RESULTS", analysisOf(analysed[1], analysed[2])),
                        SetLoading(FALSE)>>)
                /\ event' = EndEvent("end", "analyzeAndShowInsights", "shown", "",
                                     <<folderId>>)
    /\ UNCHANGED <<pc, worker, audit, cat, orphans, runs>>
    /\ UNCHANGED treeVars
    /\ viewKept

\* handleSelectInsight of the InsightsView: a domain or an age band on show.
HandleSelectInsight(type, key) ==
    /\ uiFree
    /\ state.appMode = "insights"
    /\ state.analysisResults # <<>>
    /\ LET results == state.analysisResults[1].results
       IN  \/ /\ type = "domain"
              /\ \E d \in 1..Len(results.topDomains) : results.topDomains[d].domain = key
           \/ /\ type = "age"
              /\ \E g \in 1..Len(results.ageAnalysis) : results.ageAnalysis[g].label = key
    /\ state' = appReducer(state,
          Action("FILTER_BY_INSIGHT", [type |-> type, key |-> key]))
    /\ event' = Event("user", "handleSelectInsight", "", "")
    /\ UNCHANGED <<pc, worker, audit, cat, orphans, runs>>
    /\ UNCHANGED treeVars
    /\ viewKept

\* handleDeleteFiltered of the toolbar.
HandleDeleteFiltered ==
    /\ uiFree
    /\ state.appMode = "filtered"
    /\ state.filteredState # <<>>
    /\ Len(state.filteredState[1].bookmarks) # 0
    /\ state' = appReducer(state,
          Action("SHOW_CONFIRMATION",
                 [onConfirm |-> Action("DELETE_FILTERED_BOOKMARKS", <<>>)]))
    /\ event' = Event("user", "handleDeleteFiltered", "", "")
    /\ UNCHANGED <<pc, worker, audit, cat, orphans, runs>>
    /\ UNCHANGED treeVars
    /\ viewKept

\* handleExitMode of the toolbar, the button of the insights and of the
\* filtered view.
HandleExitMode ==
    /\ uiFree
    /\ state.appMode \in {"insights", "filtered"}
    /\ state' = appReducer(state,
          Action("SET_APP_MODE",
                 IF state.appMode = "filtered" /\ state.searchQuery = ""
                 THEN "insights" ELSE "normal"))
    /\ event' = Event("user", "handleExitMode", "", "")
    /\ UNCHANGED <<pc, worker, audit, cat, orphans, runs>>
    /\ UNCHANGED treeVars
    /\ viewKept

\* The insights of one imported file.
InsightFiles ==
    {FileOf(t) : t \in WorkerTrees(MaxInsightNodes, Urls, {"", "100"})}

InsightsNext ==
    \/ \E content \in InsightFiles : state.appMode = "welcome" /\ ParseFile(content)
    \/ WorkerMessage
    \/ ParseSuccess
    \/ \E folderId \in {<<>>, state.activeFolderId} : AnalyzeAndShowInsights(folderId)
    \/ \E type \in {"domain", "age"}, key \in {"a.com", "b.org"} \cup Range(AgeLabels) :
          HandleSelectInsight(type, key)
    \/ HandleDeleteFiltered
    \/ HandleExitMode
    \/ Confirm
    \/ Cancel

SpecInsights == AppInit0 /\ [][InsightsNext]_vars

\* ------------------------------------------------------------------------
\* The search: the box of the toolbar, the effect of App.tsx 30-33 and
\* performSearch (AppContext.tsx 523-535)
\* ------------------------------------------------------------------------

\* What is typed into the search box.
Queries == {"Docs", "b.org", "zzz"}

\* String.prototype.includes on `${title} ${url}` in lower case, for the
\* queries of the model: 'docs' is the title, 'b.org' the end of a url.
searchTextIncludes(searchText, lowerQuery) ==
    CASE lowerQuery = "docs"  -> searchText[1] = "docs"
      [] lowerQuery = "b.org" -> searchText[2] = "https://b.org"
      [] OTHER -> FALSE

\* The payload performSearch dispatches with SET_FILTERED_STATE.
searchResults(bookmarks, query) ==
    [title |-> <<"search", query>>,
     bookmarks |-> SelectSeq(flattenBookmarks(bookmarks),
                      LAMBDA bm : bm.searchText # <<>>
                                  /\ searchTextIncludes(bm.searchText, toLowerCase(query)))]

\* onChange of the search box, shown in 'normal' mode.
SetSearchQuery(query) ==
    /\ uiFree
    /\ state.appMode = "normal"
    /\ state' = appReducer(state, Action("SET_SEARCH_QUERY", query))
    /\ event' = Event("user", "onChange", "", "")
    /\ UNCHANGED <<pc, worker, audit, cat, orphans, runs>>
    /\ UNCHANGED treeVars
    /\ viewKept

\* The renders of the provider alternate between two marks, so that a
\* dispatch that stores a state equal to the one before is a step.
rendered == IF event.end = "render" THEN "rendered again" ELSE "render"

\* The effect of App.tsx 30-33.  Every render of the provider builds a new
\* `actions` object (AppContext.tsx 400), a dependency of the effect, so the
\* effect runs after every render; with a tree and a query performSearch
\* dispatches SET_FILTERED_STATE, which stores a new state object and so
\* renders again.  With no tree or no query it dispatches nothing.
SearchEffect ==
    /\ state.bookmarks # <<>>
    /\ toLowerCase(state.searchQuery) # ""
    /\ state' = appReducer(state,
          Action("SET_FILTERED_STATE",
                 searchResults(state.bookmarks[1], state.searchQuery)))
    /\ event' = Event("effect", "performSearch", rendered, "")
    /\ UNCHANGED <<pc, worker, audit, cat, orphans, runs>>
    /\ UNCHANGED treeVars
    /\ viewKept

\* The search on one imported file.
SearchFiles == {FileOf(t) : t \in WorkerTrees(MaxSearchNodes, Urls, {"100"})}

SearchNext ==
    \/ \E content \in SearchFiles : state.appMode = "welcome" /\ ParseFile(content)
    \/ WorkerMessage
    \/ ParseSuccess
    \/ \E query \in Queries \cup {""} : SetSearchQuery(query)
    \/ SearchEffect
    \/ HandleDeleteFiltered
    \/ HandleExitMode
    \/ Confirm
    \/ Cancel

\* React runs an effect whose dependencies have changed after the render.
SpecSearch == AppInit0 /\ [][SearchNext]_vars /\ WF_vars(SearchEffect)

\* The provider's handlers together; handleResolveSelected is taken with any
\* selection the duplicate manager can hold.
Next ==
    \/ \E content \in AppFiles : ParseFile(content)
    \/ WorkerMessage
    \/ ParseSuccess
    \/ Confirm
    \/ Cancel
    \/ FindAndSetDuplicates
    \/ ResolveAllKeepOldest
    \/ \E selectedIds \in SUBSET allOfSets(state.duplicates) : ResolveSelected(selectedIds)
    \/ FindAndSetEmptyFolders
    \/ HandleDeleteEmptyFolders
    \/ ExitMode
    \/ \E issueId \in reportedIds : HandleToggleSelection(issueId)
    \/ HandleDeleteSelectedIssues
    \/ \E k \in 1..MaxAppNodes : HandleUpdateUrl(k)
    \/ HandleApply
    \/ AuditSteps(AppReplyLen, OneRun)
    \/ CategorizeSteps(AppReplyLen, OneRun)

Init == AppInit0

Spec == Init /\ [][Next]_vars

\* A step that is not the user's and not an answer of the oracle: the worker
\* and its timer, a probe, the continuation of a handler, a back-off that ends.
SystemStep ==
    \/ WorkerMessage
    \/ ParseSuccess
    \/ \E i \in 1..MaxAuditNodes, settled \in Settled : ProbeSettles(i, settled)
    \/ PrecheckDone
    \/ AiRequest
    \/ \E p \in 1..FixChunkSize, isAlive \in BOOLEAN : FixProbeSettles(p, isAlive)
    \/ FixProbesDone
    \/ \E k \in 1..CatConcurrency : CatRetry(k)
    \/ \E k \in 1..CatConcurrency, outcome \in {"settled", "transient"} :
          OrphanRespond(k, outcome)
    \/ \E k \in 1..CatConcurrency : OrphanRetry(k)

\* Batch k of the running group waits for the oracle.
catWaits(k) ==
    pc = "categorize" /\ k \in 1..Len(cat.tasks) /\ cat.tasks[k].status = "waiting"

\* The event loop runs what is ready: while a step that is not the user's can
\* be taken, one is.  Every oracle call completes: AiRespond can be taken
\* exactly while pc is "awaitAI", CatRespond(k) exactly while batch k waits,
\* and each ends the wait, so their weak fairness is that the wait is over
\* again and again.
Fairness ==
    /\ WF_vars(SystemStep)
    /\ []<>(pc # "awaitAI")
    /\ \A k \in 1..CatConcurrency : []<>(~catWaits(k))

\* Every operation that shows the loading overlay, on one small file.
LoadingFiles ==
    {FileOf(t) : t \in WorkerTrees(MaxLoadingNodes, {"https://A.com"}, {"100"})}
    \cup {BadFile}

LoadingNext ==
    \/ \E content \in LoadingFiles : ParseFile(content)
    \/ WorkerMessage
    \/ ParseSuccess
    \/ Confirm
    \/ Cancel
    \/ FindAndSetDuplicates
    \/ FindAndSetEmptyFolders
    \/ AnalyzeAndShowInsights(<<>>)
    \/ ExitMode
    \/ HandleExitMode
    \/ HandleApply
    \/ AuditSteps(AppReplyLen, MaxRuns)
    \/ CategorizeSteps(AppReplyLen, MaxRuns)

SpecLoading == Init /\ [][LoadingNext]_vars /\ Fairness

\* The tools run one after another on a small file: the categorization, then
\* Fix-It-All or the duplicate manager on the tree the categorization left.
RerunFiles ==
    {FileOf(t) : t \in WorkerTrees(MaxRerunNodes, {"https://A.com"}, {"100"})}

RerunNext ==
    \/ \E content \in RerunFiles : state.appMode = "welcome" /\ ParseFile(content)
    \/ WorkerMessage
    \/ ParseSuccess
    \/ ExitMode
    \/ CategorizeSteps(AppReplyLen, MaxRuns)
    \/ FindAndSetDuplicates
    \/ PerformSmartScan
    \/ \E url \in Urls, health \in {"ok", "dead"} : ScanProbeSettles(url, health)
    \/ ScanBatchDone

SpecRerun == AppInit0 /\ [][RerunNext]_vars

\* ------------------------------------------------------------------------
\* Claims
\* ------------------------------------------------------------------------
keep(seq, idsToRemove) == SelectSeq(seq, LAMBDA b : b.id \notin idsToRemove)

\* C1: every bookmark of flattenBookmarks(removeBookmarksByIds(T, S)) has an
\* id outside S, and the bookmarks of flattenBookmarks(T) with an id outside S
\* are all in the result, unchanged and in the same relative order.
C1_RemoveByIdsKeepsExactlyTheOthers ==
    op = "removeBookmarksByIds" =>
        /\ \A i \in 1..Len(flattenBookmarks(out)) :
              flattenBookmarks(out)[i].id \notin ids
        /\ flattenBookmarks(out) = keep(flattenBookmarks(arg), ids)

\* A call that removes a bookmark, keeps another one that lies in a folder,
\* and whose set also names a folder.
C1_Witness ==
    /\ op = "removeBookmarksByIds"
    /\ \E i \in 1..Len(flattenBookmarks(arg)) : flattenBookmarks(arg)[i].id \in ids
    /\ \E i \in 1..Len(folders(arg)) :
          /\ folders(arg)[i].id \in ids
          /\ \E j \in 1..Len(flattenBookmarks(folders(arg)[i].children)) :
                flattenBookmarks(folders(arg)[i].children)[j].id \notin ids

\* C2: flattenBookmarks(removeEmptyFolders(T)) = flattenBookmarks(T).
C2_PruningKeepsEveryBookmark ==
    op = "removeEmptyFolders" => flattenBookmarks(out) = flattenBookmarks(arg)

\* A call that drops an empty folder and keeps a bookmark that lies two
\* folders deep.
C2_Witness ==
    /\ op = "removeEmptyFolders"
    /\ Len(folders(out)) < Len(folders(arg))
    /\ \E i \in 1..Len(folders(out)) :
          /\ \A j \in 1..Len(folders(out)[i].children) :
                folders(out)[i].children[j].type = "folder"
          /\ flattenBookmarks(folders(out)[i].children) # <<>>

\* C3: removeFoldersByIds(T, S) leaves T as it was, so a second call on the
\* same T returns the same tree and the same removedCount.
C3_RemoveFoldersByIdsLeavesInputAlone ==
    op = "removeFoldersByIds" =>
        /\ tree = arg
        /\ removeFoldersByIds(tree, ids).cleanedBookmarks = out
        /\ removeFoldersByIds(tree, ids).removedCount = removedCount

distinct(seq) == \A i, j \in 1..Len(seq) : i # j => seq[i] # seq[j]

\* C4: in every reachable state the node ids of the live tree are pairwise
\* distinct.
C4_LiveTreeIdsDistinct ==
    state.bookmarks # <<>> => distinct(nodeIds(state.bookmarks[1]))

\* C5: in every reachable state every folder of the live tree that carries
\* childStats has them equal to the counts of its direct bookmark children
\* and direct folder children.
C5_ChildStatsMatchChildren ==
    state.bookmarks # <<>> =>
        \A i \in 1..Len(folders(state.bookmarks[1])) :
            LET folder == folders(state.bookmarks[1])[i]
            IN  folder.childStats # <<>> =>
                    folder.childStats[1] = childCounts(folder.children)

\* The locals of the audit that runs or has just ended.
auditLocals ==
    IF event.type = "end" /\ event.handler = "audit" THEN event.locals[1] ELSE audit

\* runAudit has just returned a report.
auditReturned ==
    /\ event.type = "end"
    /\ event.handler = "audit"
    /\ event.end \in {"report", "noIssues"}

issuesOf(a, bookmark) ==
    SelectSeq(a.allIssues, LAMBDA issue : issue.bookmark = bookmark)

\* C6: an oracle request is sent only when no probe is pending; only
\* bookmarks whose probe was answered are submitted, and when runAudit
\* returns all of them have been; a bookmark whose probe failed has exactly
\* one issue, 'Network Error', and is never submitted.
C6_OracleSeesExactlyTheSurvivors ==
    LET a == auditLocals
        answered == {i \in 1..Len(a.probes) : a.probes[i] = "fulfilled"}
        failed   == {i \in 1..Len(a.probes) : a.probes[i] = "rejected"}
    IN  /\ a.submitted # {} => \A i \in 1..Len(a.probes) : a.probes[i] # "pending"
        /\ a.submitted \subseteq {a.bookmarks[i].id : i \in answered}
        /\ auditReturned => a.submitted = {a.bookmarks[i].id : i \in answered}
        /\ a.index > 0 =>
              \A i \in failed :
                  /\ Len(issuesOf(a, a.bookmarks[i])) = 1
                  /\ issuesOf(a, a.bookmarks[i])[1].status = "Network Error"
                  /\ a.bookmarks[i].id \notin a.submitted

\* An audit of three bookmarks has returned: one probe failed and the other
\* two bookmarks went to the oracle in two batches.
C6_Witness ==
    /\ auditReturned
    /\ Len(auditLocals.probes) = 3
    /\ Cardinality({i \in 1..3 : auditLocals.probes[i] = "rejected"}) = 1
    /\ Cardinality(auditLocals.submitted) = 2

\* C7: an audit in which an attempt failed with a text containing 'quota' is
\* over: it sends no further request, it has ended with the quota failure
\* and without a report, and healthAuditReport and appMode are as they were
\* when it started.
C7_QuotaFailureEndsTheAudit ==
    /\ pc \in {"precheck", "aicheck", "awaitAI"} => ~audit.quotaFailed
    /\ (event.type = "end" /\ event.handler = "audit"
           /\ event.locals[1].quotaFailed) =>
          /\ pc = "idle"
          /\ event.end = "quota"
          /\ state.healthAuditReport = event.locals[1].before.healthAuditReport
          /\ state.appMode = event.locals[1].before.appMode

\* An audit ended by a quota failure on the retry of its first batch, with a
\* second batch never sent and an issue of the first try already in the list.
C7_Witness ==
    /\ event.type = "end"
    /\ event.handler = "audit"
    /\ event.locals[1].quotaFailed
    /\ event.locals[1].attempts = <<2, 0>>
    /\ Len(event.locals[1].allIssues) > 0

\* C8: when a health audit or a Fix-It-All run has ended because of quota
\* exhaustion, isAIQuotaExceeded is true and the alert names the quota.
C8_QuotaEndSetsTheFlag ==
    (event.type = "end" /\ event.handler \in {"audit", "fixItAll"}
       /\ event.end = "quota") =>
        /\ state.isAIQuotaExceeded
        /\ event.alert # "An error occurred during the Health Audit"

\* C9: no handler sends an oracle request while isAIQuotaExceeded is true.
C9_NoRequestWhileFlagUp ==
    (event.type = "request" /\ event.handler \in {"audit", "categorize", "fixItAll"})
        => ~state.isAIQuotaExceeded

\* C10: no audit batch is tried more than three times, a batch whose tries
\* all failed has no issue in the list, and the audit still returns.
C10_ExhaustedBatchAddsNothing ==
    LET a == auditLocals
        chunks == chunksOf(a.bookmarksToAiCheck, AuditChunkSize)
    IN  /\ \A k \in 1..Len(a.attempts) : a.attempts[k] <= 3
        /\ \A k \in a.exhausted :
              \A b \in 1..Len(chunks[k]) : issuesOf(a, chunks[k][b]) = <<>>
        /\ (event.type = "end" /\ event.handler = "audit" /\ a.exhausted # {})
              => event.end \in {"report", "noIssues"}

\* The concatenation of a sequence of sequences.
RECURSIVE concat(_)
concat(seqs) == IF seqs = <<>> THEN <<>> ELSE Head(seqs) \o concat(Tail(seqs))

\* Requests of the audit's current batch sent and not yet answered: every
\* failed attempt but the one that ended the run on the quota is counted in
\* retries, and a successful one puts the batch in succeeded.
auditInFlight(a) ==
    a.attempts[a.index] - a.retries
        - (IF a.index \in a.succeeded THEN 1 ELSE 0)
        - (IF a.quotaFailed THEN 1 ELSE 0)

\* C11: the audit's batches are the survivors cut in order into slices of at
\* most AuditChunkSize (25 in the code), each survivor in exactly one; at
\* most one oracle request is in flight; a batch is asked for only when every
\* batch before it has succeeded or has used up its three attempts, and
\* asked for again only when all its earlier attempts have failed.
C11_AuditBatchesOneAtATime ==
    LET a == auditLocals
        chunks == chunksOf(a.bookmarksToAiCheck, AuditChunkSize)
    IN  /\ concat(chunks) = a.bookmarksToAiCheck
        /\ \A k \in 1..Len(chunks) :
              Len(chunks[k]) >= 1 /\ Len(chunks[k]) <= AuditChunkSize
        /\ Len(a.attempts) > 0 =>
              /\ auditInFlight(a) \in {0, 1}
              /\ pc = "awaitAI" <=> auditInFlight(a) = 1
              /\ (event.type = "request" /\ event.handler = "audit")
                    => a.attempts[a.index] = a.retries + 1
              /\ \A k \in 1..Len(a.attempts) :
                    /\ k < a.index =>
                          /\ a.attempts[k] >= 1
                          /\ k \in a.succeeded \cup a.exhausted
                    /\ k > a.index => a.attempts[k] = 0
                    /\ k \in a.exhausted => a.attempts[k] = MAX_RETRIES
                    /\ a.attempts[k] <= MAX_RETRIES

\* An audit of three survivors has returned: the first batch used up its
\* three attempts and the second succeeded at its second attempt.
C11_Witness ==
    /\ auditReturned
    /\ auditLocals.attempts = <<3, 2>>
    /\ auditLocals.exhausted = {1}
    /\ auditLocals.succeeded = {2}

\* The batches of the running categorizeBookmarks whose request is in flight.
catInFlight == {k \in 1..Len(cat.tasks) : cat.tasks[k].status = "waiting"}

\* C12: at most one categorization request is in flight at any time.
C12_OneCategorizationRequestAtATime == Cardinality(catInFlight) <= 1

\* C13: once a categorization attempt has failed with a quota, billing or 429
\* text the run is over and none of its batches sends a request any more,
\* the batches of the same group that were in flight or backing off included.
C13_NoRequestAfterQuotaAbort ==
    ~(event.type = "request" /\ event.handler = "orphan")

\* A step of a Fix-It-All run or one taken while its proposal is shown, other
\* than the confirmed APPLY_FIX_IT_ALL.
fixItAllStep ==
    /\ \/ cat.handler = "fixItAll"
       \/ cat'.handler = "fixItAll"
       \/ state.appMode = "fixItAll"
    /\ ~(event'.type = "confirm" /\ event'.handler = "APPLY_FIX_IT_ALL")

\* C14: from the start of generateFixItAllProposal on, no step but the
\* confirmed APPLY_FIX_IT_ALL changes state.bookmarks or state.stats: not the
\* steps of the run, not its failure, not leaving or cancelling the proposal.
C14_LiveTreeWaitsForApply ==
    [][fixItAllStep =>
          /\ state'.bookmarks = state.bookmarks
          /\ state'.stats = state.stats]_vars

\* The confirmation of a proposal that differs from the live tree has been
\* cancelled, and the proposal is still shown.
C14_Witness ==
    /\ event.type = "user"
    /\ event.handler = "onCancel"
    /\ state.appMode = "fixItAll"
    /\ state.proposedBookmarks # <<>>
    /\ state.proposedBookmarks # state.bookmarks
    /\ flattenBookmarks(state.proposedBookmarks[1])
          # flattenBookmarks(state.bookmarks[1])

\* generateFixItAllProposal has just dispatched its proposal.
proposalMade ==
    /\ event.type = "end"
    /\ event.handler = "fixItAll"
    /\ event.end = "proposal"

idSet(bookmarks) == {bookmarks[i].id : i \in 1..Len(bookmarks)}

\* The ids the oracle's categories list, over all batches of a run.
listedIds(allResults) ==
    UNION {Range(allResults[i].bookmarkIds) : i \in 1..Len(allResults)}

targets(nodes, idsToRemove) ==
    {i \in 1..Len(folders(nodes)) : folders(nodes)[i].id \in idsToRemove}

\* C19: removeFoldersByIds(T, S) returns removedCount equal to the number of
\* folders of T whose id is in S, a folder of S nested inside another folder
\* of S counted as well, and no node of a removed folder's subtree is
\* anywhere in the returned tree.
C19_RemovedCountCountsEveryTarget ==
    op = "removeFoldersByIds" =>
        /\ removedCount = Cardinality(targets(arg, ids))
        /\ \A i \in targets(arg, ids) :
              Range(nodeIds(<<folders(arg)[i]>>)) \cap Range(nodeIds(out)) = {}

\* C20: findEmptyFolders(T) reports every folder of T that recursive pruning
\* of empty folders leaves without children, so also a folder whose only
\* descendants are empty folders.
C20_EmptyAfterPruningIsReported ==
    op = "findEmptyFolders" =>
        \A i \in 1..Len(folders(arg)) :
            removeEmptyFolders(folders(arg)[i].children) = <<>> =>
                \E k \in 1..Len(out) : out[k].id = folders(arg)[i].id

\* ------------------------------------------------------------------------
\* C16: step 1 of Fix-It-All
\* ------------------------------------------------------------------------

\* Step 1 is over and no probe result has been added to idsToRemove yet: the
\* first chunk is being probed, or the run is over and step 1 left no
\* bookmark to probe.
stepOneEnded ==
    /\ event.type = "end"
    /\ event.handler = "fixItAll"
    /\ event.locals[1].uniqueBookmarks = <<>>

afterStepOne ==
    \/ cat.handler = "fixItAll" /\ pc = "fixProbes" /\ cat.j = 1
    \/ stepOneEnded

stepOne == IF stepOneEnded THEN event.locals[1] ELSE cat

\* C16: after step 1 of Fix-It-All, of the bookmarks that share a url with
\* another one exactly one per url is not marked for removal, and no bookmark
\* of its group has a smaller addDate (a missing addDate counting as 0); all
\* the others of the group are marked.
C16_OldestOfEachUrlIsKept ==
    afterStepOne =>
        \A u \in {stepOne.allBookmarks[i].url : i \in 1..Len(stepOne.allBookmarks)} :
            LET group  == SelectSeq(stepOne.allBookmarks, LAMBDA b : b.url = u)
                keptAt == {i \in 1..Len(group) : group[i].id \notin stepOne.idsToRemove}
            IN  Len(group) >= 2 =>
                    /\ Cardinality(keptAt) = 1
                    /\ \A i \in keptAt, k \in 1..Len(group) :
                          addedAt(group[i]) <= addedAt(group[k])

\* Two bookmarks of one url, the first dated, the second without a date: the
\* first is marked and the second kept.
C16_Witness ==
    /\ afterStepOne
    /\ Len(cat.allBookmarks) = 2
    /\ cat.allBookmarks[1].url = cat.allBookmarks[2].url
    /\ cat.allBookmarks[1].addDate = "200"
    /\ cat.allBookmarks[2].addDate = ""
    /\ cat.idsToRemove = {cat.allBookmarks[1].id}

\* ------------------------------------------------------------------------
\* C17, C18: the smart scan of the duplicate manager
\* ------------------------------------------------------------------------
scanDone == event.type = "end" /\ event.handler = "performSmartScan"

\* The folders above a candidate: its path is the sequence of their titles.
ancestors(item) == Len(item.path)

\* C17: in every sorted array the smart scan makes, a candidate with fewer
\* ancestor folders stands before every candidate with more of them, whatever
\* the dates (a root-level bookmark before a bookmark one folder deep too),
\* and of two candidates of equal depth the one with the smaller addDate (a
\* missing addDate counting as 0) does not stand first.
C17_ShallowerFirstThenNewer ==
    scanDone =>
        \A g \in 1..Len(view.sorted) :
            LET sorted == view.sorted[g].items
            IN  \A i, j \in 1..Len(sorted) :
                    i < j =>
                        /\ ancestors(sorted[i]) <= ancestors(sorted[j])
                        /\ ancestors(sorted[i]) = ancestors(sorted[j]) =>
                              addedAt(sorted[i].bookmark) >= addedAt(sorted[j].bookmark)

\* C18: when a smart scan is over, every candidate of a group whose probe
\* failed is selected, and in every other group the candidate the scan
\* ranked first is the only one not selected, whatever was selected when the
\* scan began or was toggled while it ran.
C18_ScanSelectsAllButTheBest ==
    scanDone =>
        \A g \in 1..Len(state.duplicates) :
            LET group      == state.duplicates[g]
                unselected == {k \in 1..Len(group.items) :
                                  group.items[k].bookmark.id \notin view.selectedIds}
            IN  IF healthOf(view.newHealth, group.url) = "dead"
                THEN unselected = {}
                ELSE /\ Cardinality(unselected) = 1
                     /\ \E r \in 1..Len(view.sorted) :
                           /\ view.sorted[r].url = group.url
                           /\ \A k \in unselected :
                                 group.items[k] = view.sorted[r].items[1]

\* A scan over two groups, the probe of the first failed and the probe of the
\* second answered; before the scan nothing of the first group was selected
\* and the candidate the scan ranked first in the second group was.
C18_Witness ==
    /\ scanDone
    /\ Len(state.duplicates) = 2
    /\ healthOf(view.newHealth, state.duplicates[1].url) = "dead"
    /\ healthOf(view.newHealth, state.duplicates[2].url) = "ok"
    /\ itemIds(state.duplicates[1].items) \cap view.before = {}
    /\ Len(view.sorted) = 1
    /\ view.sorted[1].items[1].bookmark.id \in view.before

\* ------------------------------------------------------------------------
\* C21..C30
\* ------------------------------------------------------------------------

\* C21: every issue of a report that runAudit returns has the status
\* 'Network Error' or a status of the closed set other than 'OK': an answer
\* with an entry whose status is missing or outside the set is never taken
\* as data.
C21_ReportHoldsOnlyKnownStatuses ==
    auditReturned =>
        \A k \in 1..Len(auditLocals.allIssues) :
            auditLocals.allIssues[k].status \in LinkStatus \ {"OK"}

\* C22: an audit attempt that failed with a text holding a quota, billing or
\* rate-limit signature ends the audit at once with the quota failure: the
\* batch is not retried and no other batch is tried.
C22_BillingFailureEndsTheAudit ==
    LET a == auditLocals
    IN  (a.fullErrorText # <<>> /\ isDailyQuotaError(a.fullErrorText[1])) =>
            /\ event.type = "end"
            /\ event.handler = "audit"
            /\ event.end = "quota"

\* C23: in the report that runBookmarkHealthAudit commits, the path of an
\* issue is 'Unknown Location' only when the tree has no node with the id of
\* the issue's bookmark; for a bookmark of the tree, one at the top level
\* too, it is the path of the folders above it.
C23_IssuePathIsTheBreadcrumb ==
    (event.type = "end" /\ event.handler = "audit" /\ event.end = "report") =>
        LET report == state.healthAuditReport[1]
            nodes  == event.locals[1].before.bookmarks[1]
        IN  \A k \in 1..Len(report.issues) :
                LET path == findPathRecursive(nodes, report.issues[k].bookmark.id, <<>>)
                IN  report.issues[k].path =
                        IF path # <<>> THEN path[1] ELSE UnknownLocation

\* C24: for a tree with distinct ids, buildPathMap gives every bookmark of
\* the tree the path that findBookmarkPath returns for its id, and has no key
\* other than the ids of the bookmarks of the tree.
C24_PathMapAgreesWithFindBookmarkPath ==
    (op = "buildPathMap" /\ distinct(nodeIds(arg))) =>
        /\ \A i \in 1..Len(flattenBookmarks(arg)) :
              mapGet(out, flattenBookmarks(arg)[i].id)
                  = <<findBookmarkPath(arg, flattenBookmarks(arg)[i].id)>>
        /\ \A k \in 1..Len(out) : out[k].id \in idSet(flattenBookmarks(arg))

\* A map made of a tree with a bookmark at the top level and a bookmark two
\* folders deep.
C24_Witness ==
    /\ op = "buildPathMap"
    /\ \E k \in 1..Len(out) : out[k].path = <<>>
    /\ \E k \in 1..Len(out) : Len(out[k].path) = 2

\* The band (1 the oldest .. 6 the youngest) of a label of the output, and
\* the positions of the groups of the output that hold the id.
bandOf(label) == CHOOSE g \in 1..Len(AgeLabels) : AgeLabels[g] = label

groupsWith(groups, id) ==
    {g \in 1..Len(groups) :
        \E k \in 1..Len(groups[g].bookmarks) : groups[g].bookmarks[k].id = id}

\* The band the thresholds of 1825, 730, 365, 182.5 and 30 days give an age
\* in seconds.
statedBand(age) ==
    IF age > 1825 * Day THEN 1
    ELSE IF age > 730 * Day THEN 2
    ELSE IF age > 365 * Day THEN 3
    ELSE IF 2 * age > 365 * Day THEN 4
    ELSE IF age > 30 * Day THEN 5
    ELSE 6

\* C25: analyzeBookmarkAges puts every bookmark with a timestamp into the
\* first band whose lower bound its age exceeds, the bounds being 1825, 730,
\* 365, 182.5 and 30 days.
C25_BandsAreTheStatedThresholds ==
    op = "analyzeBookmarkAges" =>
        \A i \in 1..Len(arg) :
            (arg[i].addDate # "" /\ ~isNaN(arg[i].addDate)) =>
                \A g \in groupsWith(out, arg[i].id) :
                    bandOf(out[g].label) = statedBand(Now - parseInt(arg[i].addDate))

\* C26 as stated: every bookmark that carries an addDate is in exactly one
\* group of the output of analyzeBookmarkAges.
C26_EveryDatedBookmarkInOneBand ==
    op = "analyzeBookmarkAges" =>
        \A i \in 1..Len(arg) :
            arg[i].addDate # "" => Cardinality(groupsWith(out, arg[i].id)) = 1

\* C26: every bookmark whose addDate gives a valid date is in exactly one
\* group of the output of analyzeBookmarkAges, every other bookmark (no
\* addDate, or one that is no number or is beyond the range of Date) is in
\* none, and no group of the output is empty.
C26_EveryTimedBookmarkInOneBand ==
    op = "analyzeBookmarkAges" =>
        /\ \A i \in 1..Len(arg) :
              Cardinality(groupsWith(out, arg[i].id)) =
                  IF arg[i].addDate # "" /\ ~isNaN(arg[i].addDate) THEN 1 ELSE 0
        /\ \A g \in 1..Len(out) : Len(out[g].bookmarks) > 0

\* A bookmark left out for an addDate that is no number, next to one that is
\* the only bookmark of the only group.
C26_Witness ==
    /\ op = "analyzeBookmarkAges"
    /\ Len(arg) = 2
    /\ arg[1].addDate = NotANumber
    /\ arg[2].addDate \notin {"", NotANumber, BeyondDate}
    /\ Len(out) = 1
    /\ out[1].bookmarks = <<[id |-> arg[2].id]>>

\* round(num / den) for den > 0, a half going up.
rounded(num, den) == (2 * num + den) \div (2 * den)

\* C27: the report runAudit returns has totalChecked the number of bookmarks
\* given, totalIssues the length of its issues, and healthScore
\* round(100 * (totalChecked - totalIssues) / totalChecked), or 100 when
\* totalChecked is 0.
C27_StatsOfTheReport ==
    op = "runAudit" =>
        LET report == out[1]
        IN  /\ report.stats.totalChecked = arg.total
            /\ report.stats.totalIssues = Len(report.issues)
            /\ report.stats.healthScore =
                  IF arg.total = 0 THEN 100
                  ELSE rounded(100 * (arg.total - Len(report.issues)), arg.total)

\* C28: once a file is imported, every bookmark of the live tree has the
\* searchText of its present title and url, lowercase(title) + ' ' +
\* lowercase(url): also after UPDATE_BOOKMARK_URL, after the categorization
\* and after APPLY_FIX_IT_ALL.
C28_SearchTextIsOfThePresentTitleAndUrl ==
    state.bookmarks # <<>> =>
        LET live == flattenBookmarks(state.bookmarks[1])
        IN  \A k \in 1..Len(live) :
                live[k].searchText =
                    <<toLowerCase(live[k].title), toLowerCase(live[k].url)>>

\* UPDATE_BOOKMARK_URL has just been confirmed, and the bookmark it gave the
\* url of the oracle is in the live tree with the searchText of that url.
C28_Witness ==
    /\ event.type = "confirm"
    /\ event.handler = "UPDATE_BOOKMARK_URL"
    /\ state.bookmarks # <<>>
    /\ \E k \in 1..Len(flattenBookmarks(state.bookmarks[1])) :
          /\ flattenBookmarks(state.bookmarks[1])[k].url = MovedUrl
          /\ flattenBookmarks(state.bookmarks[1])[k].searchText[2] = MovedUrl

\* The folders of a tree: ids, titles, nesting and order, the bookmarks left
\* out.
RECURSIVE folderTree(_)
folderTree(nodes) ==
    IF nodes = <<>> THEN <<>>
    ELSE (IF Head(nodes).type = "folder"
          THEN <<[id |-> Head(nodes).id, title |-> Head(nodes).title,
                  children |-> folderTree(Head(nodes).children)]>>
          ELSE <<>>)
         \o folderTree(Tail(nodes))

\* C29: removeBookmarksByIds(T, S) removes no folder: the folders of the
\* output are those of T with their ids, titles, nesting and order, also when
\* the id of a folder is in S and when a folder loses all its children.
C29_RemoveByIdsKeepsEveryFolder ==
    op = "removeBookmarksByIds" => folderTree(out) = folderTree(arg)

\* A folder whose id is in S and whose children, all bookmarks, are all in S.
C29_Witness ==
    /\ op = "removeBookmarksByIds"
    /\ \E i \in 1..Len(folders(arg)) :
          /\ folders(arg)[i].id \in ids
          /\ folders(arg)[i].children # <<>>
          /\ \A j \in 1..Len(folders(arg)[i].children) :
                /\ folders(arg)[i].children[j].type = "bookmark"
                /\ folders(arg)[i].children[j].id \in ids
    /\ Len(folders(out)) = Len(folders(arg))

\* C30: when an import is rejected, by an error of the parser worker or by a
\* parse without a top-level node, no tree is committed: state.bookmarks,
\* state.stats and state.appMode are those _doParse was called with, and the
\* loading overlay is cleared.
C30_RejectedImportCommitsNothing ==
    (event.type = "end" /\ event.handler = "parseFile"
        /\ event.end \in {"error", "empty"}) =>
        /\ state.bookmarks = event.locals[1].bookmarks
        /\ state.stats = event.locals[1].stats
        /\ state.appMode = event.locals[1].appMode
        /\ ~state.loadingState.isLoading

\* The parser worker reports an error for a file imported over a tree.
C30_Witness ==
    /\ event.type = "end"
    /\ event.handler = "parseFile"
    /\ event.end = "error"
    /\ state.bookmarks # <<>>
    /\ state.appMode = "normal"

\* ------------------------------------------------------------------------
\* C31..C40
\* ------------------------------------------------------------------------

\* C31: with a tree loaded, state.stats.bookmarkCount is the number of
\* bookmarks of state.bookmarks and state.stats.folderCount the number of its
\* folders, after removals, prunings, the deletion of empty folders, the
\* categorization and applied proposals.
C31_StatsCountTheLiveTree ==
    (state.bookmarks # <<>> /\ state.stats # <<>>) =>
        /\ state.stats[1].bookmarkCount = Len(flattenBookmarks(state.bookmarks[1]))
        /\ state.stats[1].folderCount = countFolders(state.bookmarks[1])

\* C32: after findAndSetEmptyFolders and a confirmed DELETE_EMPTY_FOLDERS the
\* live tree has no folder without children: findEmptyFolders on it returns
\* the empty list.
C32_NoEmptyFolderAfterTheDeletion ==
    (event.type = "confirm" /\ event.handler = "DELETE_EMPTY_FOLDERS") =>
        /\ findEmptyFolders(state.bookmarks[1]) = <<>>
        /\ \A i \in 1..Len(folders(state.bookmarks[1])) :
              folders(state.bookmarks[1])[i].children # <<>>


\* C33: the selected issues are bookmark ids of issues of the present health
\* audit report, and none is selected when there is no report; so a bookmark
\* whose issue UPDATE_BOOKMARK_URL took out of the report is selected no more.
C33_SelectedIssuesAreReported ==
    state.selectedIssues \subseteq reportedIds


\* C34: with a loaded tree the active folder is 'root' or the id of a folder
\* of the live tree; no removal or pruning leaves it on a deleted folder.
C34_ActiveFolderIsInTheLiveTree ==
    (state.bookmarks # <<>> /\ state.activeFolderId # <<>>) =>
        \/ state.activeFolderId[1] = RootId
        \/ \E i \in 1..Len(folders(state.bookmarks[1])) :
              folders(state.bookmarks[1])[i].id = state.activeFolderId[1]


\* C36: in every report runAudit returns each bookmark has at most one issue,
\* so totalIssues is at most totalChecked and healthScore lies in 0..100,
\* whatever the oracle answered.
C36_OneIssuePerBookmark ==
    auditReturned =>
        LET report == rawAuditReport(auditLocals.allIssues,
                                     Len(auditLocals.bookmarks))
            issues == report.issues
        IN  /\ \A i, j \in 1..Len(issues) :
                  issues[i].bookmark.id = issues[j].bookmark.id => i = j
            /\ report.stats.totalIssues <= report.stats.totalChecked
            /\ report.stats.healthScore \in 0..100


\* The state in which the confirmation that has just been confirmed was shown.
confirmed == event.locals[1]

\* 'Resolve All (Keep Oldest)' has just been confirmed on the duplicates that
\* findAndSetDuplicates listed.
keptOldest ==
    /\ event.type = "confirm"
    /\ event.handler = "RESOLVE_ALL_DUPLICATES"
    /\ confirmed.duplicates # <<>>
    /\ confirmed.confirmation[1].onConfirm.payload = newerOfSets(confirmed.duplicates)

\* C40: after findAndSetDuplicates and a confirmed 'Resolve All (Keep
\* Oldest)' no two bookmarks of the live tree share a url, every url that was
\* duplicated is left with a bookmark than which none of its group was older
\* (a missing addDate counting as 0), the live tree has lost exactly as many
\* bookmarks as ids were removed, and the app is in 'normal' mode with no
\* duplicates listed.
C40_KeepOldestLeavesOnePerUrl ==
    keptOldest =>
        LET was == flattenBookmarks(confirmed.bookmarks[1])
            now == flattenBookmarks(state.bookmarks[1])
            idsToRemove == confirmed.confirmation[1].onConfirm.payload
        IN  /\ \A i, j \in 1..Len(now) : now[i].url = now[j].url => i = j
            /\ \A g \in 1..Len(confirmed.duplicates) :
                  \E i \in 1..Len(now) :
                     /\ now[i].url = confirmed.duplicates[g].url
                     /\ \A k \in 1..Len(was) :
                           was[k].url = now[i].url => addedAt(now[i]) <= addedAt(was[k])
            /\ Len(now) = Len(was) - Cardinality(idsToRemove)
            /\ state.appMode = "normal"
            /\ state.duplicates = <<>>


\* The calls analyzeAndShowInsights can be made with on a tree: none for the
\* whole tree, or the id of one of its folders.
scopesOf(bookmarks) ==
    {<<>>} \cup {<<folders(bookmarks)[i].id>> : i \in 1..Len(folders(bookmarks))}

\* C35: whenever the app is in 'insights' mode, the analysis results on show
\* are those of the live tree as it is now (of the whole tree or of one of
\* its folders): totalCount, the domain counts and the age bands; also after
\* DELETE_FILTERED_BOOKMARKS has gone back to the insights.
C35_InsightsAreOfTheLiveTree ==
    state.appMode = "insights" =>
        /\ state.bookmarks # <<>>
        /\ state.analysisResults # <<>>
        /\ \E folderId \in scopesOf(state.bookmarks[1]) :
              LET analysed == toAnalyze(state.bookmarks[1], folderId)
              IN  state.analysisResults[1].results =
                      analysisOf(analysed[1], analysed[2]).results


\* A step in which the search effect dispatches SET_FILTERED_STATE.
searchDispatch == event'.type = "effect" /\ event'.handler = "performSearch"

\* A step of the user.
userStep == event'.type \in {"user", "confirm", "start"}

\* C37: once the user has stopped, the search effect dispatches
\* SET_FILTERED_STATE only finitely many times: from some point on no step is
\* a dispatch of the effect.
C37_SearchEffectSettles ==
    <>[][~userStep]_vars => <>[][~searchDispatch]_vars


\* The place of a stage in the order of the stages.
stageRank(stage) ==
    CASE stage = "PRECHECK" -> 1 [] stage = "AICHECK" -> 2 [] stage = "DONE" -> 3

\* C38: the progress reports of one runAudit run come in the order PRECHECK,
\* AICHECK (none when no bookmark survives the pre-check), DONE; DONE is
\* reported once, as the last report of a run that returns; the checked count
\* never decreases from one report to the next, never exceeds total and is
\* total in the DONE report.
C38_ProgressGoesForward ==
    LET a == auditLocals
        p == a.progress
    IN  /\ \A i, j \in 1..Len(p) :
              i < j => stageRank(p[i].stage) <= stageRank(p[j].stage)
        /\ \A i \in 1..Len(p) :
              p[i].stage = "DONE" =>
                  i = Len(p) /\ auditReturned /\ p[i].checked = p[i].total
        /\ auditReturned => (Len(p) > 0 /\ p[Len(p)].stage = "DONE")
        /\ \A i \in 1..Len(p) :
              p[i].stage = "AICHECK" => Len(a.bookmarksToAiCheck) > 0
        /\ \A i \in 1..Len(p) : p[i].checked <= p[i].total
        /\ \A i \in 1..(Len(p) - 1) : p[i].checked <= p[i + 1].checked


\* C39: whenever loadingState.isLoading is true it is false again later: every
\* operation that sets it ends by clearing it, on every path, every probe and
\* every oracle call completing.
C39_LoadingEnds ==
    state.loadingState.isLoading ~> ~state.loadingState.isLoading


\* C39, its case: a health audit ended by the quota error of the oracle has
\* taken the loading overlay away.
C39_Witness ==
    /\ event.type = "end"
    /\ event.handler = "audit"
    /\ event.end = "quota"
    /\ event.locals[1].before.loadingState.isLoading = FALSE
    /\ ~state.loadingState.isLoading

====
